---------------------------- MODULE Spec2Model ----------------------------
(***************************************************************************)
(* A model of the streaming event pipeline of the notebooklm-clone chat    *)
(* frontend: the SSE utilities of frontend/lib/utils/sse.ts (frame         *)
(* decoder, line parser, stream reader, event classifier, route-decision   *)
(* filter) and the chat session hook useChat (submit, retry, edit, stop,   *)
(* newChat, loadSession).                                                  *)
(*                                                                         *)
(* A JavaScript string is a sequence of one-character strings.  A          *)
(* JavaScript value is a record tagged by its typeof/shape:                *)
(*   [t |-> "undefined"], [t |-> "null"], [t |-> "boolean", b |-> _],      *)
(*   [t |-> "number", n |-> _], [t |-> "string", s |-> _],                 *)
(*   [t |-> "array", a |-> <<values>>],                                    *)
(*   [t |-> "object", k |-> <<keys>>, v |-> <<values>>]  (insertion order) *)
(***************************************************************************)
EXTENDS Integers, Sequences, FiniteSets, TLC

(***************************************************************************)
(* Program constants (frontend/constants/api.ts, SSE_CONSTANTS).           *)
(***************************************************************************)
DATA_PREFIX == <<"d", "a", "t", "a", ":">>

EVENT_DELIMITER == <<"\n", "\n">>

MESSAGE_EVENT_PREFIX == <<"m", "e", "s", "s", "a", "g", "e", "s">>

ERROR_EVENT == <<"e", "r", "r", "o", "r">>

AI_TYPES == {<<"a", "i">>, <<"a", "s", "s", "i", "s", "t", "a", "n", "t">>}

(***************************************************************************)
(* String primitives of the JavaScript runtime.                            *)
(***************************************************************************)
\* White space removed by String.prototype.trim and matched by \s.
WhiteSpace == {" ", "\n", "\t", "\r"}

\* White space JSON.parse accepts between tokens.
JsonWhiteSpace == {" ", "\n", "\t", "\r"}

UpperCase == <<"A", "B", "C", "D", "E", "F", "G", "H", "I", "J", "K", "L", "M",
               "N", "O", "P", "Q", "R", "S", "T", "U", "V", "W", "X", "Y", "Z">>

LowerCase == <<"a", "b", "c", "d", "e", "f", "g", "h", "i", "j", "k", "l", "m",
               "n", "o", "p", "q", "r", "s", "t", "u", "v", "w", "x", "y", "z">>

Digits == <<"0", "1", "2", "3", "4", "5", "6", "7", "8", "9">>

LowerChar(c) ==
  IF \E i \in 1..26 : UpperCase[i] = c
  THEN LowerCase[CHOOSE i \in 1..26 : UpperCase[i] = c]
  ELSE c

\* String.prototype.toLowerCase
toLowerCase(s) == [i \in 1..Len(s) |-> LowerChar(s[i])]

\* s.slice(from - 1) with a 1-based index.
SliceFrom(s, from) == SubSeq(s, from, Len(s))

\* the least index in lo..hi that satisfies P, hi + 1 when there is none
First(lo, hi, P(_)) ==
  IF \E i \in lo..hi : P(i)
  THEN CHOOSE i \in lo..hi : P(i) /\ \A j \in lo..(i - 1) : ~P(j)
  ELSE hi + 1

\* the greatest index in lo..hi that satisfies P, lo - 1 when there is none
Last(lo, hi, P(_)) ==
  IF \E i \in lo..hi : P(i)
  THEN CHOOSE i \in lo..hi : P(i) /\ \A j \in (i + 1)..hi : ~P(j)
  ELSE lo - 1

TrimStart(s) ==
  SubSeq(s, First(1, Len(s), LAMBDA i : s[i] \notin WhiteSpace), Len(s))

TrimEnd(s) ==
  SubSeq(s, 1, Last(1, Len(s), LAMBDA i : s[i] \notin WhiteSpace))

\* String.prototype.trim
trim(s) == TrimEnd(TrimStart(s))

\* String.prototype.startsWith
startsWith(s, p) == Len(s) >= Len(p) /\ SubSeq(s, 1, Len(p)) = p

\* pattern occurs in s at 1-based position i
MatchAt(s, i, p) ==
  i >= 1 /\ i + Len(p) - 1 <= Len(s) /\ SubSeq(s, i, i + Len(p) - 1) = p

\* first position >= i where p occurs in s, 0 when there is none
IndexOfFrom(s, p, i) ==
  LET Found(at, hi) == IF at > hi THEN 0 ELSE at
  IN Found(First(i, Len(s) - Len(p) + 1, LAMBDA j : MatchAt(s, j, p)),
           Len(s) - Len(p) + 1)

\* A split that never cuts.
split_whole(s, sep) == <<s>>

\* String.prototype.split with a non-empty separator: left to right,
\* occurrences do not overlap, the result always has at least one element.
RECURSIVE split(_, _)
split(s, sep) ==
  LET Cut(i) ==
        IF i = 0 THEN <<s>>
        ELSE <<SubSeq(s, 1, i - 1)>>
               \o split(SliceFrom(s, i + Len(sep)), sep)
  IN Cut(IndexOfFrom(s, sep, 1))

\* Array.prototype.join("") of a sequence of strings
RECURSIVE joinEmpty(_)
joinEmpty(ss) ==
  IF ss = <<>> THEN <<>>
  ELSE IF Len(ss) = 1 THEN ss[1]
  ELSE LET half == Len(ss) \div 2
       IN joinEmpty(SubSeq(ss, 1, half))
            \o joinEmpty(SubSeq(ss, half + 1, Len(ss)))

(***************************************************************************)
(* JavaScript values.                                                      *)
(***************************************************************************)
Undefined == [t |-> "undefined"]

Null == [t |-> "null"]

JBool(b) == [t |-> "boolean", b |-> b]

JNum(n) == [t |-> "number", n |-> n]

JStr(s) == [t |-> "string", s |-> s]

JArr(a) == [t |-> "array", a |-> a]

JObj(k, v) == [t |-> "object", k |-> k, v |-> v]

IsString(x) == x.t = "string"

IsArray(x) == x.t = "array"

\* typeof x === "object" && x !== null  (arrays included)
IsObjectLike(x) == x.t \in {"object", "array"}

\* "key" in x, for a plain object
HasKey(x, key) == x.t = "object" /\ \E i \in 1..Len(x.k) : x.k[i] = key

\* x.key (undefined when absent or when x has no such property)
Get(x, key) ==
  IF HasKey(x, key)
  THEN x.v[CHOOSE i \in 1..Len(x.k) : x.k[i] = key]
  ELSE Undefined

\* the object with key set to val; a repeated key keeps its first position
\* and takes the last value, as JSON.parse does
SetKey(x, key, val) ==
  IF HasKey(x, key)
  THEN LET i == CHOOSE j \in 1..Len(x.k) : x.k[j] = key
       IN JObj(x.k, [x.v EXCEPT ![i] = val])
  ELSE JObj(Append(x.k, key), Append(x.v, val))

\* ToBoolean
Truthy(x) ==
  CASE x.t \in {"undefined", "null"} -> FALSE
    [] x.t = "boolean" -> x.b
    [] x.t = "number" -> x.n # 0
    [] x.t = "string" -> x.s # <<>>
    [] OTHER -> TRUE

(***************************************************************************)
(* JSON.parse, for documents built from objects, arrays, strings whose     *)
(* escape sequences are those of the quote, the backslash, the solidus,    *)
(* the line feed, the carriage return and the tab, non-negative integers   *)
(* and the three literals.  The result is [ok |-> TRUE, v |-> value] or    *)
(* [ok |-> FALSE] (a SyntaxError).  The parsers return [ok, v, i] with i   *)
(* the position after the value.                                           *)
(***************************************************************************)
ParseFail == [ok |-> FALSE, v |-> Undefined, i |-> 0]

\* the first position >= i that holds no JSON white space
SkipWs(s, i) ==
  IF i > Len(s) THEN i
  ELSE First(i, Len(s), LAMBDA j : s[j] \notin JsonWhiteSpace)

IsDigit(c) == \E d \in 1..10 : Digits[d] = c

DigitVal(c) == (CHOOSE d \in 1..10 : Digits[d] = c) - 1

\* the position of the closing quote of a string whose first character is
\* at position i, 0 when the string is unterminated or holds a character
\* that has to be escaped
StringEnd(s, i) ==
  LET Closing(e) ==
        IF e > Len(s) THEN 0
        ELSE IF s[e] = "\"" THEN e
        ELSE 0
  IN Closing(First(i, Len(s),
                   LAMBDA j : s[j] \in {"\"", "\n", "\t", "\r", "\\"}))

\* the character an escape sequence stands for, by the character after
\* the backslash
EscapedChars ==
  [c \in {"\"", "\\", "/", "n", "r", "t"} |->
     CASE c = "n" -> "\n"
       [] c = "r" -> "\r"
       [] c = "t" -> "\t"
       [] OTHER -> c]

\* a string that holds escape sequences, read character by character from
\* position i; text is what was read so far
RECURSIVE ParseEscaped(_, _, _)
ParseEscaped(s, i, text) ==
  IF i > Len(s) THEN ParseFail
  ELSE IF s[i] = "\"" THEN [ok |-> TRUE, v |-> JStr(text), i |-> i + 1]
  ELSE IF s[i] \in {"\n", "\t", "\r"} THEN ParseFail
  ELSE IF s[i] # "\\" THEN ParseEscaped(s, i + 1, Append(text, s[i]))
  ELSE IF i + 1 <= Len(s) /\ s[i + 1] \in DOMAIN EscapedChars
  THEN ParseEscaped(s, i + 2, Append(text, EscapedChars[s[i + 1]]))
  ELSE ParseFail

ParseString(s, i) ==
  LET Quoted(e) ==
        IF e = 0 THEN ParseEscaped(s, i + 1, <<>>)
        ELSE [ok |-> TRUE, v |-> JStr(SubSeq(s, i + 1, e - 1)), i |-> e + 1]
  IN Quoted(StringEnd(s, i + 1))

\* the position after the digits that start at position i
NumberEnd(s, i) == First(i, Len(s), LAMBDA j : ~IsDigit(s[j]))

RECURSIVE NumberVal(_, _)
NumberVal(ds, acc) ==
  IF ds = <<>> THEN acc ELSE NumberVal(Tail(ds), 10 * acc + DigitVal(Head(ds)))

ParseNumber(s, i) ==
  LET Number(e) ==
        IF s[i] = "0" /\ e > i + 1 THEN ParseFail
        ELSE IF e <= Len(s) /\ s[e] \in {".", "e", "E"} THEN ParseFail
        ELSE [ok |-> TRUE, v |-> JNum(NumberVal(SubSeq(s, i, e - 1), 0)),
              i |-> e]
  IN Number(NumberEnd(s, i))

ParseLiteral(s, i, word, val) ==
  IF MatchAt(s, i, word)
  THEN [ok |-> TRUE, v |-> val, i |-> i + Len(word)]
  ELSE ParseFail

RECURSIVE ParseValue(_, _)
RECURSIVE ParseMembers(_, _, _)
RECURSIVE ParseElements(_, _, _)

\* members of an object, i at the first non-blank position after "{" or ","
ParseMembers(s, i, obj) ==
  LET AfterValue(o, n) ==
        IF n > Len(s) THEN ParseFail
        ELSE IF s[n] = "}" THEN [ok |-> TRUE, v |-> o, i |-> n + 1]
        ELSE IF s[n] = "," THEN ParseMembers(s, SkipWs(s, n + 1), o)
        ELSE ParseFail
      Member(key, val) ==
        IF ~val.ok THEN ParseFail
        ELSE AfterValue(SetKey(obj, key.v.s, val.v), SkipWs(s, val.i))
      AfterKey(key, c) ==
        IF c > Len(s) \/ s[c] # ":" THEN ParseFail
        ELSE Member(key, ParseValue(s, c + 1))
      Key(key) ==
        IF ~key.ok THEN ParseFail
        ELSE AfterKey(key, SkipWs(s, key.i))
  IN IF i > Len(s) \/ s[i] # "\"" THEN ParseFail
     ELSE Key(ParseString(s, i))

\* elements of an array, i at the position after "[" or ","
ParseElements(s, i, arr) ==
  LET AfterValue(a, n) ==
        IF n > Len(s) THEN ParseFail
        ELSE IF s[n] = "]" THEN [ok |-> TRUE, v |-> JArr(a), i |-> n + 1]
        ELSE IF s[n] = "," THEN ParseElements(s, n + 1, a)
        ELSE ParseFail
      Element(val) ==
        IF ~val.ok THEN ParseFail
        ELSE AfterValue(Append(arr, val.v), SkipWs(s, val.i))
  IN Element(ParseValue(s, i))

ParseValue(s, i0) ==
  LET Object(n) ==
        IF n <= Len(s) /\ s[n] = "}"
        THEN [ok |-> TRUE, v |-> JObj(<<>>, <<>>), i |-> n + 1]
        ELSE ParseMembers(s, n, JObj(<<>>, <<>>))
      Array(i, n) ==
        IF n <= Len(s) /\ s[n] = "]"
        THEN [ok |-> TRUE, v |-> JArr(<<>>), i |-> n + 1]
        ELSE ParseElements(s, i + 1, <<>>)
      Value(i) ==
        IF i > Len(s) THEN ParseFail
        ELSE CASE s[i] = "{" -> Object(SkipWs(s, i + 1))
               [] s[i] = "[" -> Array(i, SkipWs(s, i + 1))
               [] s[i] = "\"" -> ParseString(s, i)
               [] IsDigit(s[i]) -> ParseNumber(s, i)
               [] s[i] = "n" ->
                    ParseLiteral(s, i, <<"n", "u", "l", "l">>, Null)
               [] s[i] = "t" ->
                    ParseLiteral(s, i, <<"t", "r", "u", "e">>, JBool(TRUE))
               [] s[i] = "f" ->
                    ParseLiteral(s, i, <<"f", "a", "l", "s", "e">>,
                                 JBool(FALSE))
               [] OTHER -> ParseFail
  IN Value(SkipWs(s, i0))

\* JSON.parse(s): the whole text has to be one value
JSONparse(s) ==
  LET Whole(r) ==
        IF r.ok /\ SkipWs(s, r.i) > Len(s)
        THEN [ok |-> TRUE, v |-> r.v]
        ELSE [ok |-> FALSE, v |-> Undefined]
  IN Whole(ParseValue(s, 1))

(***************************************************************************)
(* JSON.stringify, for the values JSON.parse above produces.  A member     *)
(* whose value is undefined is left out and undefined in an array is       *)
(* written as null; the result for undefined itself is Undefined.          *)
(***************************************************************************)
\* the decimal digits of a non-negative integer
RECURSIVE NumberText(_)
NumberText(n) ==
  IF n < 10 THEN <<Digits[n + 1]>>
  ELSE Append(NumberText(n \div 10), Digits[(n % 10) + 1])

\* QuoteJSONString, one character
QuoteChar(c) ==
  CASE c = "\"" -> <<"\\", "\"">>
    [] c = "\\" -> <<"\\", "\\">>
    [] c = "\n" -> <<"\\", "n">>
    [] c = "\r" -> <<"\\", "r">>
    [] c = "\t" -> <<"\\", "t">>
    [] OTHER -> <<c>>

QuoteString(s) ==
  <<"\"">> \o joinEmpty([i \in 1..Len(s) |-> QuoteChar(s[i])]) \o <<"\"">>

\* the texts joined by commas
RECURSIVE joinComma(_)
joinComma(ss) ==
  IF ss = <<>> THEN <<>>
  ELSE IF Len(ss) = 1 THEN ss[1]
  ELSE ss[1] \o <<",">> \o joinComma(Tail(ss))

RECURSIVE SerializeValue(_)
SerializeValue(x) ==
  CASE x.t = "string" -> QuoteString(x.s)
    [] x.t = "number" -> NumberText(x.n)
    [] x.t = "boolean" ->
         IF x.b THEN <<"t", "r", "u", "e">> ELSE <<"f", "a", "l", "s", "e">>
    [] x.t = "array" ->
         <<"[">>
           \o joinComma([i \in 1..Len(x.a) |->
                           IF x.a[i] = Undefined THEN <<"n", "u", "l", "l">>
                           ELSE SerializeValue(x.a[i])])
           \o <<"]">>
    [] x.t = "object" ->
         LET kept == SelectSeq([i \in 1..Len(x.k) |-> i],
                               LAMBDA i : x.v[i] # Undefined)
         IN <<"{">>
              \o joinComma([n \in 1..Len(kept) |->
                              QuoteString(x.k[kept[n]]) \o <<":">>
                                \o SerializeValue(x.v[kept[n]])])
              \o <<"}">>
    [] OTHER -> <<"n", "u", "l", "l">>

\* JSON.stringify(x): a JavaScript string, or undefined
JSONstringify(x) ==
  IF x = Undefined THEN Undefined ELSE JStr(SerializeValue(x))

(***************************************************************************)
(* String literals of sse.ts and useChat.ts.                               *)
(***************************************************************************)
S_route == <<"r", "o", "u", "t", "e">>

S_direct == <<"d", "i", "r", "e", "c", "t">>

S_retrieve == <<"r", "e", "t", "r", "i", "e", "v", "e">>

S_reason == <<"r", "e", "a", "s", "o", "n">>

S_explanation == <<"e", "x", "p", "l", "a", "n", "a", "t", "i", "o", "n">>

S_json == <<"j", "s", "o", "n">>

S_messages == <<"m", "e", "s", "s", "a", "g", "e", "s">>

S_event == <<"e", "v", "e", "n", "t">>

S_data == <<"d", "a", "t", "a">>

S_type == <<"t", "y", "p", "e">>

S_content == <<"c", "o", "n", "t", "e", "n", "t">>

S_id == <<"i", "d">>

S_text == <<"t", "e", "x", "t">>

S_message == <<"m", "e", "s", "s", "a", "g", "e">>

S_error == <<"e", "r", "r", "o", "r">>

S_interrupt == <<"i", "n", "t", "e", "r", "r", "u", "p", "t">>

S_run_id == <<"r", "u", "n", "_", "i", "d">>

\* the grave accent, which a TLA+ string cannot hold
GraveAccent == "U+0060"

S_fence == <<GraveAccent, GraveAccent, GraveAccent>>

\* frontend/lib/utils/sse.ts, isInternalRouteDecisionPayload: the ceiling
\* on the trimmed length of a route decision
RouteDecisionMaxLength == 240

(***************************************************************************)
(* frontend/lib/utils/sse.ts: content extraction and the route-decision    *)
(* filter.  Functions that return string | null return JStr(_) or Null.    *)
(***************************************************************************)
\* A variant that takes the text of string parts only.
ContentPartText_stringsOnly(contentPart) ==
  IF IsString(contentPart) THEN contentPart.s ELSE <<>>

\* the callback of messageContent.map
ContentPartText(contentPart) ==
  IF IsString(contentPart) THEN contentPart.s
  ELSE IF IsObjectLike(contentPart)
  THEN IF IsString(Get(contentPart, S_text))
       THEN Get(contentPart, S_text).s
       ELSE <<>>
  ELSE <<>>

extractMessageContent(messageContent) ==
  IF IsString(messageContent) THEN messageContent
  ELSE IF IsArray(messageContent)
  THEN LET extractedText ==
             trim(joinEmpty([i \in 1..Len(messageContent.a) |->
                               ContentPartText(messageContent.a[i])]))
       IN IF extractedText = <<>> THEN Null ELSE JStr(extractedText)
  ELSE Null

\* A variant that asks for a type.
isAssistantMessage_typed(messageType) ==
  IsString(messageType) /\ messageType.s \in AI_TYPES

isAssistantMessage(messageType) ==
  IF ~Truthy(messageType) THEN TRUE
  ELSE IsString(messageType) /\ messageType.s \in AI_TYPES

\* the first position >= i that \s does not match
SkipSpace(s, i) ==
  IF i > Len(s) THEN i
  ELSE First(i, Len(s), LAMBDA j : s[j] \notin WhiteSpace)

\* trimmedText.match(/^route\s*[:=]\s*(direct|retrieve)\.?$/i):
\* the lower-cased capture group, or <<>> when the text does not match
routeLineMatch(trimmedText) ==
  LET Group(rest) ==
        IF rest \in {S_direct, S_direct \o <<".">>} THEN S_direct
        ELSE IF rest \in {S_retrieve, S_retrieve \o <<".">>} THEN S_retrieve
        ELSE <<>>
      Separator(low, sep) ==
        IF sep > Len(low) \/ low[sep] \notin {":", "="} THEN <<>>
        ELSE Group(SliceFrom(low, SkipSpace(low, sep + 1)))
      Route(low) ==
        IF ~startsWith(low, S_route) THEN <<>>
        ELSE Separator(low, SkipSpace(low, Len(S_route) + 1))
  IN Route(toLowerCase(trimmedText))

\* trimmedText.match(/^'''(?:json)?\s*([\s\S]*?)\s*'''$/i)?.[1], with '
\* standing for the grave accent:
\* the capture group, or <<>> when the text does not match (an empty
\* capture and no match are both falsy for the caller)
fencedJsonMatch(trimmedText) ==
  LET Body(inner) ==
        IF startsWith(toLowerCase(inner), S_json)
        THEN SliceFrom(inner, Len(S_json) + 1)
        ELSE inner
  IN IF Len(trimmedText) < 2 * Len(S_fence)
        \/ ~startsWith(trimmedText, S_fence)
        \/ ~MatchAt(trimmedText, Len(trimmedText) - Len(S_fence) + 1,
                    S_fence)
     THEN <<>>
     ELSE TrimEnd(TrimStart(Body(SubSeq(trimmedText, Len(S_fence) + 1,
                                        Len(trimmedText) - Len(S_fence)))))

\* the body of the loop over parseableCandidates: the route of a candidate,
\* Null when the loop continues
CandidateRoute(candidate) ==
  LET allowedKeys == {S_route, S_reason, S_explanation}
      hasOnlyAllowedKeys(keys) ==
        \A i \in 1..Len(keys) : keys[i] \in allowedKeys
      Route(parsed, routeValue) ==
        IF routeValue \notin {JStr(S_direct), JStr(S_retrieve)} THEN Null
        ELSE IF ~hasOnlyAllowedKeys(parsed.k) THEN Null
        ELSE routeValue
      Parsed(parsed) ==
        IF ~parsed.ok THEN Null
        ELSE IF ~Truthy(parsed.v) \/ ~IsObjectLike(parsed.v)
                \/ IsArray(parsed.v)
        THEN Null
        ELSE Route(parsed.v, Get(parsed.v, S_route))
  IN Parsed(JSONparse(candidate))

extractRouteDecision(messageText) ==
  LET FirstRoute(routes) == IF routes # <<>> THEN Head(routes) ELSE Null
      Routes(parseableCandidates) ==
        SelectSeq([i \in 1..Len(parseableCandidates) |->
                     CandidateRoute(parseableCandidates[i])],
                  LAMBDA route : route # Null)
      Candidates(trimmedText, fenced) ==
        IF fenced # <<>> THEN <<trimmedText, trim(fenced)>>
        ELSE <<trimmedText>>
      Line(trimmedText, route) ==
        IF route # <<>> THEN JStr(route)
        ELSE FirstRoute(Routes(Candidates(trimmedText,
                                          fencedJsonMatch(trimmedText))))
      Decision(trimmedText, lowercaseText) ==
        IF trimmedText = <<>> THEN Null
        ELSE IF lowercaseText \in {S_direct, S_retrieve}
        THEN JStr(lowercaseText)
        ELSE Line(trimmedText, routeLineMatch(trimmedText))
      Trimmed(trimmedText) == Decision(trimmedText, toLowerCase(trimmedText))
  IN Trimmed(trim(messageText))

\* a variant of the filter that lets every text through
isInternalRouteDecisionPayload_never(messageText) == FALSE

\* a variant of the filter that measures the text before trimming it
isInternalRouteDecisionPayload_rawLength(messageText) ==
  IF extractRouteDecision(messageText) = Null THEN FALSE
  ELSE Len(messageText) <= RouteDecisionMaxLength

isInternalRouteDecisionPayload(messageText) ==
  IF extractRouteDecision(messageText) = Null THEN FALSE
  ELSE Len(trim(messageText)) <= RouteDecisionMaxLength

(***************************************************************************)
(* frontend/lib/utils/sse.ts: the event classifier and extractor.          *)
(***************************************************************************)
\* the result of a call that throws a TypeError
Thrown == [t |-> "throw"]

extractMessageArray(eventData) ==
  IF IsArray(eventData) THEN eventData
  ELSE IF Truthy(eventData) /\ IsObjectLike(eventData)
          /\ HasKey(eventData, S_messages)
          /\ IsArray(Get(eventData, S_messages))
  THEN Get(eventData, S_messages)
  ELSE Null

ParsedSSEMessageChunk(content, messageId) ==
  [t |-> "chunk", content |-> content, messageId |-> messageId]

parseSSEMessageChunk(eventChunk) ==
  LET Chunk(lastMessage, messageText) ==
        IF messageText = Null THEN Null
        ELSE IF trim(messageText.s) = <<>> THEN Null
        ELSE IF isInternalRouteDecisionPayload(messageText.s) THEN Null
        ELSE ParsedSSEMessageChunk(
               messageText.s,
               IF IsString(Get(lastMessage, S_id))
               THEN Get(lastMessage, S_id)
               ELSE Undefined)
      LastMessage(lastMessage) ==
        IF ~isAssistantMessage(Get(lastMessage, S_type)) THEN Null
        ELSE Chunk(lastMessage,
                   extractMessageContent(Get(lastMessage, S_content)))
      Messages(messageArray) ==
        IF messageArray = Null THEN Null
        ELSE IF Len(messageArray.a) = 0 THEN Null
        ELSE LastMessage(messageArray.a[Len(messageArray.a)])
      Typed(eventType, eventData) ==
        IF eventType.t \in {"undefined", "null"} THEN Null
        ELSE IF ~IsString(eventType) THEN Thrown
        ELSE IF ~startsWith(eventType.s, MESSAGE_EVENT_PREFIX) THEN Null
        ELSE Messages(extractMessageArray(eventData))
  IN IF ~Truthy(eventChunk) \/ ~IsObjectLike(eventChunk) THEN Null
     ELSE Typed(Get(eventChunk, S_event), Get(eventChunk, S_data))

parseSSEChunk(eventChunk) ==
  LET Content(parsedChunk) ==
        IF parsedChunk = Thrown THEN Thrown
        ELSE IF parsedChunk = Null THEN Null
        ELSE JStr(parsedChunk.content)
  IN Content(parseSSEMessageChunk(eventChunk))

\* A variant that takes every event with a discriminator for an error.
isSSEErrorEvent_anyType(eventChunk) ==
  /\ eventChunk # Null
  /\ IsObjectLike(eventChunk)
  /\ HasKey(eventChunk, S_event)

isSSEErrorEvent(eventChunk) ==
  /\ eventChunk # Null
  /\ IsObjectLike(eventChunk)
  /\ HasKey(eventChunk, S_event)
  /\ Get(eventChunk, S_event) = JStr(ERROR_EVENT)

\* A variant that prefers the error field to the message field.
extractSSEErrorMessage_errorFirst(eventChunk) ==
  LET Message(eventData) ==
        IF IsString(eventData) THEN eventData
        ELSE IF IsString(Get(eventData, S_error))
        THEN Get(eventData, S_error)
        ELSE IF IsString(Get(eventData, S_message))
        THEN Get(eventData, S_message)
        ELSE Null
  IN IF ~isSSEErrorEvent(eventChunk) THEN Null
     ELSE Message(Get(eventChunk, S_data))

extractSSEErrorMessage(eventChunk) ==
  LET Message(eventData) ==
        IF eventData.t \in {"undefined", "null"} THEN Null
        ELSE IF IsString(eventData) THEN eventData
        ELSE IF IsObjectLike(eventData) /\ HasKey(eventData, S_message)
                /\ IsString(Get(eventData, S_message))
        THEN Get(eventData, S_message)
        ELSE IF IsObjectLike(eventData) /\ HasKey(eventData, S_error)
                /\ IsString(Get(eventData, S_error))
        THEN Get(eventData, S_error)
        ELSE Null
  IN IF ~isSSEErrorEvent(eventChunk) THEN Null
     ELSE Message(Get(eventChunk, S_data))

isSSEErrorData(data) ==
  /\ data # Null
  /\ IsObjectLike(data)
  /\ (HasKey(data, S_message) \/ HasKey(data, S_error))

\* a variant that takes no error event for an interruption
isSSEInterruptedErrorEvent_never(eventChunk) == FALSE

isSSEInterruptedErrorEvent(eventChunk) ==
  LET Interrupted(eventData) ==
        /\ isSSEErrorData(eventData)
        /\ Get(eventData, S_message) = JStr(S_interrupt)
  IN IF ~isSSEErrorEvent(eventChunk) THEN FALSE
     ELSE Interrupted(Get(eventChunk, S_data))

(***************************************************************************)
(* frontend/lib/utils/sse.ts: the line parser and the frame decoder.       *)
(***************************************************************************)
\* a variant of parseSSELine that hands on the text of a frame it cannot
\* decode
parseSSELine_failsOpen(line) ==
  LET Parsed(jsonString, parsed) ==
        IF parsed.ok THEN parsed.v ELSE JStr(jsonString)
      Json(jsonString) == Parsed(jsonString, JSONparse(jsonString))
      Line(trimmedLine) ==
        IF ~startsWith(trimmedLine, DATA_PREFIX) THEN JStr(trimmedLine)
        ELSE Json(trim(SliceFrom(trimmedLine, Len(DATA_PREFIX) + 1)))
  IN Line(trim(line))

\* unknown | null: a dropped line and the JSON value null are both Null
parseSSELine(line) ==
  LET Parsed(parsed) == IF parsed.ok THEN parsed.v ELSE Null
      Line(trimmedLine) ==
        IF ~startsWith(trimmedLine, DATA_PREFIX) THEN Null
        ELSE Parsed(JSONparse(trim(SliceFrom(trimmedLine,
                                             Len(DATA_PREFIX) + 1))))
  IN Line(trim(line))

\* A variant of processSSEBuffer that keeps the whole buffer.
processSSEBuffer_keepsBuffer(bufferString) ==
  LET Events(eventStrings) ==
        [parsedEvents |->
           SelectSeq([i \in 1..(Len(eventStrings) - 1) |->
                        parseSSELine(eventStrings[i])],
                     LAMBDA event : event # Null),
         remainingBuffer |-> bufferString]
  IN Events(split(bufferString, EVENT_DELIMITER))

\* a variant of processSSEBuffer that forgets the unfinished frame
processSSEBuffer_dropsRemainder(bufferString) ==
  LET Events(eventStrings) ==
        [parsedEvents |->
           SelectSeq([i \in 1..(Len(eventStrings) - 1) |->
                        parseSSELine(eventStrings[i])],
                     LAMBDA event : event # Null),
         remainingBuffer |-> <<>>]
  IN Events(split(bufferString, EVENT_DELIMITER))

processSSEBuffer(bufferString) ==
  LET Events(eventStrings) ==
        [parsedEvents |->
           SelectSeq([i \in 1..(Len(eventStrings) - 1) |->
                        parseSSELine(eventStrings[i])],
                     LAMBDA event : event # Null),
         remainingBuffer |-> eventStrings[Len(eventStrings)]]
  IN Events(split(bufferString, EVENT_DELIMITER))

(***************************************************************************)
(* The stream reader: readSSEStream, its byte source and its consumer.     *)
(***************************************************************************)
VARIABLES
  body,          \* what the transport will deliver: [frames, tail]
  hasBody,       \* response.body is not null
  delivered,     \* number of bytes of the body already read
  genPc,         \* position of the generator
  readerHeld,    \* response.body.getReader() has been called
  decoderLead,   \* the TextDecoder holds the lead byte of an unfinished
                 \* character
  buffer,        \* the local variable buffer
  parsedQueue,   \* the events of parsedEvents not yet yielded
  yielded,       \* the events handed to the consumer so far, in order
  releaseCount,  \* number of calls of reader.releaseLock()
  exitPath       \* how the generator ended

streamVars == <<body, hasBody, delivered, genPc, readerHeld, decoderLead,
                buffer, parsedQueue, yielded, releaseCount, exitPath>>

\* Bounds of the stream model.
MaxFrames == 2

\* The bytes of the two-byte UTF-8 encoding of U+00E9, and the characters
\* the decoder produces from them.
LeadByte == "0xC3"

ContinuationByte == "0xA9"

CharE9 == "U+00E9"

ReplacementChar == "U+FFFD"

\* The frames a body is built from: the bytes of the frame and, by
\* construction, the JSON value it carries (wellFormed: it has the data
\* prefix and its payload is a JSON document).
FrameKinds ==
  << [bytes |-> <<"d", "a", "t", "a", ":", " ", "{", "\"", "a", "\"", ":",
                  "1", "}">>,
      wellFormed |-> TRUE, value |-> JObj(<<<<"a">>>>, <<JNum(1)>>)],
     [bytes |-> <<"\t", "d", "a", "t", "a", ":", "\n", "\"", LeadByte,
                  ContinuationByte, LeadByte, "\"", " ">>,
      wellFormed |-> TRUE, value |-> JStr(<<CharE9, ReplacementChar>>)],
     [bytes |-> <<"d", "a", "t", "a", ":", " ", "n", "u", "l", "l">>,
      wellFormed |-> TRUE, value |-> Null],
     [bytes |-> <<"d", "a", "t", "a", ":", "{", "b", "a", "d">>,
      wellFormed |-> FALSE, value |-> Undefined],
     [bytes |-> <<"n", "o", "t", "-", "d", "a", "t", "a">>,
      wellFormed |-> FALSE, value |-> Undefined] >>

\* What may follow the last delimiter of a body.
Tails == { <<>>, <<"d", "a", "t", "a", ":", "4">> }

FrameSeqs == UNION {[1..n -> 1..Len(FrameKinds)] : n \in 0..MaxFrames}

Bodies == [frames : FrameSeqs, tail : Tails]

\* the bytes of a body: every frame followed by the delimiter, then the tail
RECURSIVE FramesBytes(_)
FramesBytes(fs) ==
  IF fs = <<>> THEN <<>>
  ELSE FrameKinds[Head(fs)].bytes \o EVENT_DELIMITER \o FramesBytes(Tail(fs))

BodyBytes(b) == FramesBytes(b.frames) \o b.tail

\* TextDecoder.decode(value, { stream: true }) on the bytes above: lead is
\* TRUE when the previous call ended on a lead byte.  The decoder is a state
\* machine over the bytes; a lead byte always leaves it waiting for the
\* continuation, so its state before a byte is known from the byte before.
\* DecodeByte is what the byte at position i adds to the text.
DecodeByte(lead, bytes, i) ==
  LET pending == IF i = 1 THEN lead ELSE bytes[i - 1] = LeadByte
      b == bytes[i]
  IN IF b = ContinuationByte
     THEN IF pending THEN <<CharE9>> ELSE <<ReplacementChar>>
     ELSE IF b = LeadByte
     THEN IF pending THEN <<ReplacementChar>> ELSE <<>>
     ELSE IF pending THEN <<ReplacementChar, b>> ELSE <<b>>

\* the text and the new state of the decoder
TextDecode(lead, bytes) ==
  [text |-> joinEmpty([i \in 1..Len(bytes) |-> DecodeByte(lead, bytes, i)]),
   lead |-> IF bytes = <<>> THEN lead ELSE bytes[Len(bytes)] = LeadByte]

InitStreamVars ==
  /\ body \in Bodies
  /\ hasBody \in BOOLEAN
  /\ delivered = 0
  /\ genPc = "created"
  /\ readerHeld = FALSE
  /\ decoderLead = FALSE
  /\ buffer = <<>>
  /\ parsedQueue = <<>>
  /\ yielded = <<>>
  /\ releaseCount = 0
  /\ exitPath = "none"

\* a variant of releaseLock that does not release
releaseLock_noop(count) == count

\* reader.releaseLock()
releaseLock(count) == count + 1

\* A variant of the first next() that does not test the reader.
GenStart_anyBody ==
  /\ genPc = "created"
  /\ readerHeld' = TRUE
  /\ genPc' = "awaitRead"
  /\ UNCHANGED <<body, hasBody, delivered, decoderLead, buffer, parsedQueue,
                 yielded, releaseCount, exitPath>>

\* The first next() of the consumer: lines 346-352, up to the first read.
GenStart ==
  /\ genPc = "created"
  /\ IF hasBody
     THEN /\ readerHeld' = TRUE
          /\ genPc' = "awaitRead"
          /\ exitPath' = exitPath
     ELSE /\ readerHeld' = FALSE
          /\ genPc' = "threw"
          /\ exitPath' = "noReader"
  /\ UNCHANGED <<body, hasBody, delivered, decoderLead, buffer, parsedQueue,
                 yielded, releaseCount>>

\* A variant of the loop that reads on as soon as it has yielded the last
\* event of a chunk.
YieldOrRead_readsAhead(events) ==
  IF events # <<>>
  THEN /\ yielded' = Append(yielded, Head(events))
       /\ parsedQueue' = Tail(events)
       /\ genPc' = IF Tail(events) = <<>> THEN "awaitRead" ELSE "atYield"
  ELSE /\ yielded' = yielded
       /\ parsedQueue' = <<>>
       /\ genPc' = "awaitRead"

\* the for loop over parsedEvents: yield the next event, or go back to
\* reader.read() when there is none left
YieldOrRead(events) ==
  IF events # <<>>
  THEN /\ yielded' = Append(yielded, Head(events))
       /\ parsedQueue' = Tail(events)
       /\ genPc' = "atYield"
  ELSE /\ yielded' = yielded
       /\ parsedQueue' = <<>>
       /\ genPc' = "awaitRead"

\* reader.read() resolves with the next n bytes of the body.
ReadChunk ==
  /\ genPc = "awaitRead"
  /\ LET Processed(decoded, result) ==
           /\ decoderLead' = decoded.lead
           /\ buffer' = result.remainingBuffer
           /\ YieldOrRead(result.parsedEvents)
         Decoded(decoded) ==
           Processed(decoded, processSSEBuffer(buffer \o decoded.text))
         Read(bytes) ==
           \E n \in 1..(Len(bytes) - delivered) :
             /\ delivered' = delivered + n
             /\ Decoded(TextDecode(decoderLead,
                                   SubSeq(bytes, delivered + 1,
                                          delivered + n)))
     IN Read(BodyBytes(body))
  /\ UNCHANGED <<body, hasBody, readerHeld, releaseCount, exitPath>>

\* A variant of the end of the stream that decodes what the buffer holds
\* as one more frame.
ReadDone_flushesBuffer ==
  /\ genPc = "awaitRead"
  /\ delivered = Len(BodyBytes(body))
  /\ genPc' = "returned"
  /\ exitPath' = "endOfStream"
  /\ releaseCount' = releaseLock(releaseCount)
  /\ yielded' =
       yielded \o processSSEBuffer(buffer \o EVENT_DELIMITER).parsedEvents
  /\ UNCHANGED <<body, hasBody, delivered, readerHeld, decoderLead, buffer,
                 parsedQueue>>

\* reader.read() resolves with done: break, then the finally block.
ReadDone ==
  /\ genPc = "awaitRead"
  /\ delivered = Len(BodyBytes(body))
  /\ genPc' = "returned"
  /\ exitPath' = "endOfStream"
  /\ releaseCount' = releaseLock(releaseCount)
  /\ UNCHANGED <<body, hasBody, delivered, readerHeld, decoderLead, buffer,
                 parsedQueue, yielded>>

\* reader.read() rejects (a network error or an abort): the finally block
\* runs and the error propagates to the consumer.
ReadThrows ==
  /\ genPc = "awaitRead"
  /\ genPc' = "threw"
  /\ exitPath' = "readError"
  /\ releaseCount' = releaseLock(releaseCount)
  /\ UNCHANGED <<body, hasBody, delivered, readerHeld, decoderLead, buffer,
                 parsedQueue, yielded>>

\* The consumer asks for the next element while the generator is suspended
\* at the yield.
Pull ==
  /\ genPc = "atYield"
  /\ YieldOrRead(parsedQueue)
  /\ UNCHANGED <<body, hasBody, delivered, readerHeld, decoderLead, buffer,
                 releaseCount, exitPath>>

\* The consumer leaves the for await loop (break, return or a throw in the
\* loop body) and the runtime calls return() on the generator suspended at
\* the yield: the finally block runs.
ConsumerReturn ==
  /\ genPc = "atYield"
  /\ genPc' = "returned"
  /\ exitPath' = "abandoned"
  /\ releaseCount' = releaseLock(releaseCount)
  /\ UNCHANGED <<body, hasBody, delivered, readerHeld, decoderLead, buffer,
                 parsedQueue, yielded>>

(***************************************************************************)
(* frontend/constants/api.ts, ERROR_MESSAGES.                              *)
(***************************************************************************)
CONNECTION_FAILED ==
  <<"U", "n", "a", "b", "l", "e", " ", "t", "o", " ", "c", "o", "n", "n",
    "e", "c", "t", " ", "t", "o", " ", "t", "h", "e", " ", "c", "h", "a",
    "t", " ", "b", "a", "c", "k", "e", "n", "d", ".", " ", "C", "h", "e",
    "c", "k", " ", "L", "A", "N", "G", "G", "R", "A", "P", "H", " ", "e",
    "n", "v", " ", "v", "a", "l", "u", "e", "s", ".">>

BACKEND_NOT_READY ==
  <<"S", "t", "i", "l", "l", " ", "c", "o", "n", "n", "e", "c", "t", "i",
    "n", "g", " ", "t", "o", " ", "t", "h", "e", " ", "c", "h", "a", "t",
    " ", "b", "a", "c", "k", "e", "n", "d", ".", " ", "P", "l", "e", "a",
    "s", "e", " ", "w", "a", "i", "t", " ", "a", " ", "m", "o", "m", "e",
    "n", "t", ".">>

STREAMING_ERROR ==
  <<"S", "t", "r", "e", "a", "m", "i", "n", "g", " ", "e", "r", "r", "o",
    "r", ".", " ", "P", "l", "e", "a", "s", "e", " ", "t", "r", "y", " ",
    "a", "g", "a", "i", "n", ".">>

PROCESSING_ERROR ==
  <<"S", "o", "r", "r", "y", ",", " ", "t", "h", "e", "r", "e", " ", "w",
    "a", "s", " ", "a", "n", " ", "e", "r", "r", "o", "r", " ", "p", "r",
    "o", "c", "e", "s", "s", "i", "n", "g", " ", "y", "o", "u", "r", " ",
    "m", "e", "s", "s", "a", "g", "e", ".">>

UNKNOWN_ERROR ==
  <<"U", "n", "k", "n", "o", "w", "n", " ", "e", "r", "r", "o", "r", " ",
    "o", "c", "c", "u", "r", "r", "e", "d">>

NO_STREAM_READER ==
  <<"N", "o", " ", "r", "e", "a", "d", "e", "r", " ", "a", "v", "a", "i",
    "l", "a", "b", "l", "e", " ", "o", "n", " ", "r", "e", "s", "p", "o",
    "n", "s", "e", " ", "b", "o", "d", "y">>

NO_RUN_ID ==
  <<"N", "o", " ", "r", "u", "n", " ", "I", "D", " ", "f", "o", "u", "n",
    "d", " ", "i", "n", " ", "e", "v", "e", "n", "t">>

(***************************************************************************)
(* The chat session: the hook useChat.  Texts used as inputs.              *)
(***************************************************************************)
T_answer ==
  <<"T", "h", "e", " ", "a", "n", "s", "w", "e", "r", " ", "i", "s", " ",
    "4">>

T_routeJson ==
  <<"{", "\"", "r", "o", "u", "t", "e", "\"", ":", "\"", "d", "i", "r",
    "e", "c", "t", "\"", "}">>

T_routeLine ==
  <<"R", "o", "u", "t", "e", ":", " ", "r", "e", "t", "r", "i", "e", "v",
    "e", ".">>

T_boom ==
  <<"b", "o", "o", "m">>

T_net ==
  <<"F", "a", "i", "l", "e", "d", " ", "t", "o", " ", "f", "e", "t", "c",
    "h">>

T_hi ==
  <<" ", "h", "i">>

T_blank ==
  <<" ", " ">>

T_r1 ==
  <<"r", "1">>

T_r2 ==
  <<"r", "2">>

T_metadata ==
  <<"m", "e", "t", "a", "d", "a", "t", "a">>

T_partial ==
  <<"m", "e", "s", "s", "a", "g", "e", "s", "/", "p", "a", "r", "t", "i",
    "a", "l">>

T_ai ==
  <<"a", "i">>

T_typeError ==
  <<"e", "v", "e", "n", "t", "T", "y", "p", "e", "?", ".", "s", "t", "a",
    "r", "t", "s", "W", "i", "t", "h", " ", "i", "s", " ", "n", "o", "t",
    " ", "a", " ", "f", "u", "n", "c", "t", "i", "o", "n">>

\* Bounds of the session model.
\* accepted submissions in a session where every operation is used
MaxSubmits == 2

\* accepted submissions in a session where the user only submits and stops
MaxRaceSubmits == 3

MaxThreads == 1

MaxPendingStops == 1

MaxNewChats == 1

MaxLoads == 1

\* the thread id of a stored session handed to loadSession
StoredThread == 101

VARIABLES
  messages,          \* useState: the message list
  isLoading,         \* useState: the submitting flag
  connectionStatus,  \* useState
  threadId,          \* useState: 0 is null
  currentRunIdRef,   \* useRef: Null or a string
  chatAbortRef,      \* useRef: 0 is null, else the submission whose
                     \* AbortController it holds
  subs,              \* the position of every call of submitMessage or
                     \* editAndResubmitMessage that was accepted
  initPending,       \* initializeThread awaits client.threads.create
  pendingStops,      \* calls of stop() that await client.runs.cancel
  newChats,          \* calls of newChat(): how many there were, how many
                     \* await stop() and how many await
                     \* client.threads.create
  threadsCreated,    \* number of threads the backend has created
  sessionsLoaded,    \* number of calls of loadSession
  stopInvokedOn,     \* the submissions that were in flight when stop() was
                     \* called and that it did not end
  effects            \* what the last step did to the outside: the
                     \* operation, the event it processed, the toasts it
                     \* raised, the requests it sent

sessionVars == <<messages, isLoading, connectionStatus, threadId,
                 currentRunIdRef, chatAbortRef, subs, initPending,
                 pendingStops, newChats, threadsCreated, sessionsLoaded,
                 stopInvokedOn, effects>>

Message(role, content) == [role |-> role, content |-> content]

Toast(level, text) == [level |-> level, text |-> text]

NoRequest == [thread |-> 0]

NoCancel == [thread |-> 0]

Effects(op, event, toasts, request, cancel) ==
  [op |-> op, event |-> event, toasts |-> toasts, request |-> request,
   cancel |-> cancel]

\* The events a response stream may carry, with the kind each has by
\* construction.
MessagesEvent(text) ==
  JObj(<<S_event, S_data>>,
       <<JStr(T_partial),
         JArr(<<JObj(<<S_type, S_content>>, <<JStr(T_ai), JStr(text)>>)>>)>>)

ErrorEvent(text) ==
  JObj(<<S_event, S_data>>,
       <<JStr(ERROR_EVENT), JObj(<<S_message>>, <<JStr(text)>>)>>)

RunEvent(runId) ==
  JObj(<<S_event, S_data>>,
       <<JStr(T_metadata), JObj(<<S_run_id>>, <<JStr(runId)>>)>>)

SessionEvents ==
  << [kind |-> "run", event |-> RunEvent(T_r1)],
     [kind |-> "run", event |-> RunEvent(T_r2)],
     [kind |-> "content", event |-> MessagesEvent(T_answer)],
     [kind |-> "route", event |-> MessagesEvent(T_routeJson)],
     [kind |-> "route", event |-> MessagesEvent(T_routeLine)],
     [kind |-> "interrupt", event |-> ErrorEvent(S_interrupt)],
     [kind |-> "error", event |-> ErrorEvent(T_boom)] >>

\* the texts a user may submit
SubmitTexts == {T_hi, T_blank}

\* the message lists of stored sessions
StoredMessages ==
  { <<Message("user", <<"h", "i">>), Message("assistant", T_answer)>> }

InitSession(submissions) ==
  /\ messages = <<>>
  /\ isLoading = FALSE
  /\ connectionStatus = "connecting"
  /\ threadId = 0
  /\ currentRunIdRef = Null
  /\ chatAbortRef = 0
  /\ subs = [s \in 1..submissions |-> "none"]
  /\ initPending = TRUE
  /\ pendingStops = 0
  /\ newChats = [called |-> 0, stopping |-> 0, creating |-> 0]
  /\ threadsCreated = 0
  /\ sessionsLoaded = 0
  /\ stopInvokedOn = {}
  /\ effects = Effects("mount", "none", <<>>, NoRequest, NoCancel)

(***************************************************************************)
(* useChat: helpers.                                                       *)
(***************************************************************************)
SubIds == DOMAIN subs

\* the submission awaits fetch or reads its response stream
Live(s) == subs[s] \in {"fetch", "stream"}

InFlight == {s \in SubIds : Live(s)}

\* the identity of the next accepted submission, Len(subs) + 1 when the
\* bound is reached
FreeSub == First(1, Len(subs), LAMBDA s : subs[s] = "none")

appendAssistantMessage(prev, content) ==
  IF Len(prev) = 0 THEN <<Message("assistant", content)>>
  ELSE IF prev[Len(prev)].role = "assistant"
  THEN SubSeq(prev, 1, Len(prev) - 1)
         \o <<[prev[Len(prev)] EXCEPT !.content = content]>>
  ELSE Append(prev, Message("assistant", content))

\* the updater of setMessages that keeps streamed content and otherwise
\* replaces the last message by the error text
PreserveOrReplace(prev, errorMessage) ==
  IF Len(prev) > 0 /\ prev[Len(prev)].role = "assistant"
     /\ trim(prev[Len(prev)].content) # <<>>
  THEN prev
  ELSE SubSeq(prev, 1, Len(prev) - 1)
         \o <<Message("assistant", errorMessage)>>

extractRunId(event) ==
  IF /\ Truthy(event)
     /\ IsObjectLike(event)
     /\ HasKey(event, S_data)
     /\ Truthy(Get(event, S_data))
     /\ IsObjectLike(Get(event, S_data))
     /\ HasKey(Get(event, S_data), S_run_id)
     /\ IsString(Get(Get(event, S_data), S_run_id))
  THEN Get(Get(event, S_data), S_run_id)
  ELSE Null

SessionUnchangedExcept(changed) ==
  /\ IF "messages" \in changed THEN TRUE
     ELSE messages' = messages
  /\ IF "isLoading" \in changed THEN TRUE
     ELSE isLoading' = isLoading
  /\ IF "connectionStatus" \in changed THEN TRUE
     ELSE connectionStatus' = connectionStatus
  /\ IF "threadId" \in changed THEN TRUE
     ELSE threadId' = threadId
  /\ IF "currentRunIdRef" \in changed THEN TRUE
     ELSE currentRunIdRef' = currentRunIdRef
  /\ IF "chatAbortRef" \in changed THEN TRUE
     ELSE chatAbortRef' = chatAbortRef
  /\ IF "subs" \in changed THEN TRUE
     ELSE subs' = subs
  /\ IF "initPending" \in changed THEN TRUE
     ELSE initPending' = initPending
  /\ IF "pendingStops" \in changed THEN TRUE
     ELSE pendingStops' = pendingStops
  /\ IF "newChats" \in changed THEN TRUE
     ELSE newChats' = newChats
  /\ IF "threadsCreated" \in changed THEN TRUE
     ELSE threadsCreated' = threadsCreated
  /\ IF "sessionsLoaded" \in changed THEN TRUE
     ELSE sessionsLoaded' = sessionsLoaded
  /\ IF "stopInvokedOn" \in changed THEN TRUE
     ELSE stopInvokedOn' = stopInvokedOn

\* A variant of the teardown that leaves the session loading.
Teardown_keepsLoading ==
  /\ chatAbortRef' = 0
  /\ isLoading' = isLoading
  /\ currentRunIdRef' = Null

\* a variant of the finally block that keeps the run id
Teardown_keepsRunId ==
  /\ chatAbortRef' = 0
  /\ isLoading' = FALSE
  /\ currentRunIdRef' = currentRunIdRef

\* the finally block of submitMessage and editAndResubmitMessage
Teardown ==
  /\ chatAbortRef' = 0
  /\ isLoading' = FALSE
  /\ currentRunIdRef' = Null

\* the catch block for an error that is not an AbortError, then finally
FailSubmission(s, op, event, moreToasts, errorMessage) ==
  /\ messages' = PreserveOrReplace(messages, errorMessage)
  /\ subs' = [subs EXCEPT ![s] = "ended"]
  /\ Teardown
  /\ effects' = Effects(op, event,
                        moreToasts \o <<Toast("error", errorMessage)>>,
                        NoRequest, NoCancel)
  /\ SessionUnchangedExcept({"messages", "subs", "chatAbortRef",
                             "isLoading", "currentRunIdRef"})

(***************************************************************************)
(* useChat: submitMessage, retryLastMessage, editAndResubmitMessage.       *)
(***************************************************************************)
NoBefore == [sent |-> FALSE, list |-> <<>>]

Before(list) == [sent |-> TRUE, list |-> list]

\* an early return: nothing but the toast
Rejected(toasts) ==
  /\ effects' = Effects("rejected", "none", toasts, NoRequest, NoCancel)
  /\ SessionUnchangedExcept({})

\* the optimistic update, the reset of the run id, the new AbortController
\* and the call of sendMessage, up to the await of fetch
Accepted(op, base, content, messagesBeforeEdit) ==
  /\ FreeSub <= Len(subs)
  /\ messages' = base \o <<Message("user", content),
                            Message("assistant", <<>>)>>
  /\ isLoading' = TRUE
  /\ currentRunIdRef' = Null
  /\ chatAbortRef' = FreeSub
  /\ subs' = [subs EXCEPT ![FreeSub] = "fetch"]
  /\ effects' = Effects(op, "none", <<>>,
                        [thread |-> threadId, message |-> content,
                         before |-> messagesBeforeEdit],
                        NoCancel)
  /\ SessionUnchangedExcept({"messages", "isLoading", "currentRunIdRef",
                             "chatAbortRef", "subs"})

\* a variant of submitMessage that sends the text as it was typed
submitMessage_untrimmed(op, base, messageText, messagesBeforeEdit) ==
  IF trim(messageText) = <<>> \/ isLoading THEN Rejected(<<>>)
  ELSE IF connectionStatus # "connected" \/ threadId = 0
  THEN Rejected(<<Toast("info", BACKEND_NOT_READY)>>)
  ELSE Accepted(op, base, messageText, messagesBeforeEdit)

submitMessage(op, base, messageText, messagesBeforeEdit) ==
  LET trimmedInput == trim(messageText)
  IN IF trimmedInput = <<>> \/ isLoading THEN Rejected(<<>>)
     ELSE IF connectionStatus # "connected" \/ threadId = 0
     THEN Rejected(<<Toast("info", BACKEND_NOT_READY)>>)
     ELSE Accepted(op, base, trimmedInput, messagesBeforeEdit)

Submit(messageText) ==
  submitMessage("submit", messages, messageText, NoBefore)

retryLastMessage ==
  LET lastUserIndex ==
        Last(1, Len(messages), LAMBDA i : messages[i].role = "user")
  IN IF lastUserIndex = 0 \/ isLoading THEN Rejected(<<>>)
     ELSE IF trim(messages[lastUserIndex].content) = <<>>
     THEN Rejected(<<>>)
     ELSE IF connectionStatus # "connected" \/ threadId = 0
     THEN Rejected(<<Toast("info", BACKEND_NOT_READY)>>)
     ELSE submitMessage("retry",
                        SubSeq(messages, 1, lastUserIndex - 1),
                        messages[lastUserIndex].content,
                        Before(SubSeq(messages, 1, lastUserIndex - 1)))

\* messageIndex counts from 1 here, from 0 in the source
editAndResubmitMessage(messageIndex, text) ==
  LET newContent == trim(text)
  IN IF newContent = <<>> \/ isLoading THEN Rejected(<<>>)
     ELSE IF messageIndex > Len(messages)
             \/ messages[messageIndex].role # "user"
     THEN Rejected(<<>>)
     ELSE IF connectionStatus # "connected" \/ threadId = 0
     THEN Rejected(<<Toast("info", BACKEND_NOT_READY)>>)
     ELSE Accepted("edit", SubSeq(messages, 1, messageIndex - 1),
                   newContent,
                   Before(SubSeq(messages, 1, messageIndex - 1)))

(***************************************************************************)
(* useChat: the asynchronous steps of an accepted submission.              *)
(***************************************************************************)
\* fetch resolves with an ok response: processStreamEvents starts and
\* readSSEStream takes the reader, or throws when there is no body.
FetchResponds(s) ==
  /\ subs[s] = "fetch"
  /\ \E bodyPresent \in BOOLEAN :
       IF bodyPresent
       THEN /\ subs' = [subs EXCEPT ![s] = "stream"]
            /\ effects' = Effects("response", "none", <<>>, NoRequest,
                                  NoCancel)
            /\ SessionUnchangedExcept({"subs"})
       ELSE FailSubmission(s, "response", "none", <<>>, NO_STREAM_READER)

\* fetch rejects, or the response is not ok and sendMessage throws
FetchFails(s) ==
  /\ subs[s] = "fetch"
  /\ FailSubmission(s, "fetchFailed", "none", <<>>, T_net)

\* the body of the for await loop of processStreamEvents, for event i
StreamEvent(s, i) ==
  /\ subs[s] = "stream"
  /\ LET Handle(event, kind, runId, runToast, content, errorMessage) ==
           IF content = Thrown
           THEN FailSubmission(s, "event", kind, runToast, T_typeError)
           ELSE
             /\ currentRunIdRef' =
                  IF ~Truthy(currentRunIdRef) /\ Truthy(runId) THEN runId
                  ELSE currentRunIdRef
             /\ IF Truthy(content)
                THEN /\ messages' =
                          appendAssistantMessage(messages, content.s)
                     /\ effects' = Effects("event", kind, runToast,
                                           NoRequest, NoCancel)
                ELSE IF isSSEErrorEvent(event)
                        /\ ~isSSEInterruptedErrorEvent(event)
                THEN /\ messages' = PreserveOrReplace(messages, errorMessage)
                     /\ effects' =
                          Effects("event", kind,
                                  runToast
                                    \o <<Toast("error", errorMessage)>>,
                                  NoRequest, NoCancel)
                ELSE /\ messages' = messages
                     /\ effects' = Effects("event", kind, runToast,
                                           NoRequest, NoCancel)
             /\ SessionUnchangedExcept({"currentRunIdRef", "messages"})
         ErrorText(message) ==
           IF message # Null THEN message.s ELSE STREAMING_ERROR
         RunToast(event, runId) ==
           IF ~Truthy(currentRunIdRef) /\ ~Truthy(runId)
              /\ ~isSSEInterruptedErrorEvent(event)
           THEN <<Toast("error", NO_RUN_ID)>>
           ELSE <<>>
         Event(event, kind, runId) ==
           Handle(event, kind, runId, RunToast(event, runId),
                  parseSSEChunk(event),
                  ErrorText(extractSSEErrorMessage(event)))
     IN Event(SessionEvents[i].event, SessionEvents[i].kind,
              extractRunId(SessionEvents[i].event))

\* reader.read() reports the end of the stream
StreamDone(s) ==
  /\ subs[s] = "stream"
  /\ subs' = [subs EXCEPT ![s] = "ended"]
  /\ Teardown
  /\ effects' = Effects("done", "none", <<>>, NoRequest, NoCancel)
  /\ SessionUnchangedExcept({"subs", "chatAbortRef", "isLoading",
                             "currentRunIdRef"})

\* reader.read() rejects with an error that is not an abort
StreamFails(s) ==
  /\ subs[s] = "stream"
  /\ FailSubmission(s, "streamFailed", "none", <<>>, T_net)

(***************************************************************************)
(* useChat: stop, newChat, loadSession and the thread creation on mount.   *)
(***************************************************************************)
\* the submission that chatAbortRef.current.abort() ends: its pending fetch
\* or read rejects with an AbortError, the catch block returns and the
\* finally block runs before the next task
AbortTarget ==
  IF chatAbortRef # 0 /\ Live(chatAbortRef) THEN chatAbortRef ELSE 0

SubsAfterAbort ==
  [s \in SubIds |-> IF s = AbortTarget THEN "ended" ELSE subs[s]]

\* How the remote cancellation goes when stop() has a run id and a thread
\* id: "awaited" when client.runs.cancel returns a promise that settles
\* later, "unavailable" when there is no cancel function or the call throws
\* at once.
CancelModes ==
  IF Truthy(currentRunIdRef) /\ threadId # 0
  THEN {"awaited", "unavailable"}
  ELSE {"none"}

\* stop() up to its await, or to its end when it does not await, together
\* with the teardown of the submission it aborted
StopCall(mode) ==
  /\ subs' = SubsAfterAbort
  /\ stopInvokedOn' = stopInvokedOn \cup (InFlight \ {AbortTarget})
  /\ chatAbortRef' = 0
  /\ IF mode = "awaited"
     THEN /\ currentRunIdRef' =
               IF AbortTarget # 0 THEN Null ELSE currentRunIdRef
          /\ isLoading' = IF AbortTarget # 0 THEN FALSE ELSE isLoading
     ELSE /\ currentRunIdRef' = Null
          /\ isLoading' = FALSE

CancelRequest(mode) ==
  IF mode = "awaited"
  THEN [thread |-> threadId, run |-> currentRunIdRef.s]
  ELSE NoCancel

\* A variant of stop() whose aborted submission reports the abort like any
\* other error.
stop_reportsAbort ==
  \E mode \in CancelModes :
    /\ mode = "awaited" => pendingStops < MaxPendingStops
    /\ StopCall(mode)
    /\ pendingStops' = IF mode = "awaited" THEN pendingStops + 1
                       ELSE pendingStops
    /\ messages' = IF AbortTarget # 0
                   THEN PreserveOrReplace(messages, UNKNOWN_ERROR)
                   ELSE messages
    /\ effects' =
         Effects(IF mode = "awaited" THEN "stopAwaits" ELSE "stop",
                 "none",
                 IF AbortTarget # 0 THEN <<Toast("error", UNKNOWN_ERROR)>>
                 ELSE <<>>,
                 NoRequest, CancelRequest(mode))
    /\ SessionUnchangedExcept({"subs", "stopInvokedOn", "chatAbortRef",
                               "currentRunIdRef", "isLoading",
                               "pendingStops", "messages"})

stop ==
  \E mode \in CancelModes :
    /\ mode = "awaited" => pendingStops < MaxPendingStops
    /\ StopCall(mode)
    /\ pendingStops' = IF mode = "awaited" THEN pendingStops + 1
                       ELSE pendingStops
    /\ effects' =
         Effects(IF mode = "awaited" THEN "stopAwaits" ELSE "stop",
                 "none", <<>>, NoRequest, CancelRequest(mode))
    /\ SessionUnchangedExcept({"subs", "stopInvokedOn", "chatAbortRef",
                               "currentRunIdRef", "isLoading",
                               "pendingStops"})

\* client.runs.cancel settles (either way): the rest of stop()
StopSettles ==
  /\ pendingStops > 0
  /\ pendingStops' = pendingStops - 1
  /\ currentRunIdRef' = Null
  /\ isLoading' = FALSE
  /\ effects' = Effects("stop", "none", <<>>, NoRequest, NoCancel)
  /\ SessionUnchangedExcept({"pendingStops", "currentRunIdRef",
                             "isLoading"})

\* newChat() up to its first await that does not settle at once
newChat ==
  \E mode \in CancelModes :
    /\ newChats.called < MaxNewChats
    /\ StopCall(mode)
    /\ IF mode = "awaited"
       THEN /\ messages' = messages
            /\ newChats' = [newChats EXCEPT !.called = @ + 1,
                                            !.stopping = @ + 1]
       ELSE /\ messages' = <<>>
            /\ newChats' = [newChats EXCEPT !.called = @ + 1,
                                            !.creating = @ + 1]
    /\ effects' = Effects("newChat", "none", <<>>, NoRequest,
                          CancelRequest(mode))
    /\ SessionUnchangedExcept({"subs", "stopInvokedOn", "chatAbortRef",
                               "currentRunIdRef", "isLoading", "messages",
                               "newChats"})

\* the stop() awaited by newChat() returns: the rest of stop(), then
\* newChat() up to the await of client.threads.create
NewChatStopSettles ==
  /\ newChats.stopping > 0
  /\ newChats' = [newChats EXCEPT !.stopping = @ - 1,
                                  !.creating = @ + 1]
  /\ currentRunIdRef' = Null
  /\ isLoading' = FALSE
  /\ messages' = <<>>
  /\ effects' = Effects("newChatStopped", "none", <<>>, NoRequest,
                        NoCancel)
  /\ SessionUnchangedExcept({"newChats", "currentRunIdRef", "isLoading",
                             "messages"})

\* client.threads.create settles for newChat()
NewChatCreated ==
  /\ newChats.creating > 0
  /\ newChats' = [newChats EXCEPT !.creating = @ - 1]
  /\ \E ok \in BOOLEAN :
       IF ok
       THEN /\ threadsCreated < MaxThreads
            /\ threadsCreated' = threadsCreated + 1
            /\ threadId' = threadsCreated + 1
            /\ connectionStatus' = "connected"
            /\ effects' = Effects("newChatCreated", "none", <<>>, NoRequest,
                                  NoCancel)
       ELSE /\ threadsCreated' = threadsCreated
            /\ threadId' = threadId
            /\ connectionStatus' = "error"
            /\ effects' = Effects("newChatFailed", "none",
                                  <<Toast("error", CONNECTION_FAILED)>>,
                                  NoRequest, NoCancel)
  /\ SessionUnchangedExcept({"newChats", "threadsCreated", "threadId",
                             "connectionStatus"})

\* client.threads.create settles for the effect that runs on mount
initializeThread ==
  /\ initPending
  /\ initPending' = FALSE
  /\ \E ok \in BOOLEAN :
       IF ok
       THEN /\ threadsCreated < MaxThreads
            /\ threadsCreated' = threadsCreated + 1
            /\ threadId' = threadsCreated + 1
            /\ connectionStatus' = "connected"
            /\ effects' = Effects("threadCreated", "none", <<>>, NoRequest,
                                  NoCancel)
       ELSE /\ threadsCreated' = threadsCreated
            /\ threadId' = threadId
            /\ connectionStatus' = "error"
            /\ effects' = Effects("threadFailed", "none",
                                  <<Toast("error", CONNECTION_FAILED)>>,
                                  NoRequest, NoCancel)
  /\ SessionUnchangedExcept({"initPending", "threadsCreated", "threadId",
                             "connectionStatus"})

loadSession(sessionThreadId, sessionMessages) ==
  /\ sessionsLoaded < MaxLoads
  /\ sessionsLoaded' = sessionsLoaded + 1
  /\ subs' = SubsAfterAbort
  /\ chatAbortRef' = 0
  /\ currentRunIdRef' = Null
  /\ isLoading' = FALSE
  /\ threadId' = sessionThreadId
  /\ messages' = sessionMessages
  /\ connectionStatus' = "connected"
  /\ effects' = Effects("loadSession", "none", <<>>, NoRequest, NoCancel)
  /\ SessionUnchangedExcept({"subs", "chatAbortRef", "currentRunIdRef",
                             "isLoading", "threadId", "messages",
                             "connectionStatus", "sessionsLoaded"})


(***************************************************************************)
(* The filter of internal payloads applied to one text.                    *)
(***************************************************************************)
VARIABLES
  routeText,     \* the argument of isInternalRouteDecisionPayload
  routeVerdict   \* "none" before the call, then "internal" or "visible"

filterVars == <<routeText, routeVerdict>>

\* the length of the white space put before and after a text
MaxPad == 1

Repeat(c, n) == [i \in 1..n |-> c]

\* a route object of the given length
LongJson(length) ==
  LET head ==
        <<"{", "\"", "r", "o", "u", "t", "e", "\"", ":", "\"", "d", "i",
          "r", "e", "c", "t", "\"", ",", "\"", "r", "e", "a", "s", "o",
          "n", "\"", ":", "\"">>
  IN head \o Repeat("x", length - Len(head) - 2) \o <<"\"", "}">>

\* a route line of the given length
LongLine(length) ==
  <<"r", "o", "u", "t", "e", ":">>
    \o Repeat(" ", length - 12)
    \o <<"d", "i", "r", "e", "c", "t">>

FilterCores ==
  {
    \* bare words, and texts that are not
    <<"d", "i", "r", "e", "c", "t">>,
    <<"R", "e", "t", "r", "i", "e", "v", "e">>,
    <<"d", "i", "r", "e", "c", "t", "l", "y">>,
    <<>>,
    \* route lines, and texts that are not
    <<"r", "o", "u", "t", "e", ":", "d", "i", "r", "e", "c", "t">>,
    <<"R", "O", "U", "T", "E", " ", "=", " ", "R", "e", "t", "r", "i", "e",
      "v", "e", ".">>,
    <<"r", "o", "u", "t", "e", " ", ":", "d", "i", "r", "e", "c", "t">>,
    <<"r", "o", "u", "t", "e", ":", "\n", "d", "i", "r", "e", "c", "t">>,
    <<"r", "o", "u", "t", "e", "=", " ", "d", "i", "r", "e", "c", "t", ".",
      ".">>,
    <<"r", "o", "u", "t", "e", " ", "d", "i", "r", "e", "c", "t">>,
    <<"r", "o", "u", "t", "e", ":", " ", "d", "e", "t", "o", "u", "r">>,
    <<"a", " ", "r", "o", "u", "t", "e", ":", " ", "d", "i", "r", "e", "c",
      "t">>,
    <<"r", "o", "u", "t", "e", ":", "d", "i", "r", "e", "c", "t", "\n", "r",
      "o", "u", "t", "e", ":", "r", "e", "t", "r", "i", "e", "v", "e">>,
    \* JSON documents
    <<"{", "\"", "r", "o", "u", "t", "e", "\"", ":", "\"", "d", "i", "r",
      "e", "c", "t", "\"", "}">>,
    <<"{", " ", "\"", "r", "o", "u", "t", "e", "\"", " ", ":", " ", "\"",
      "r", "e", "t", "r", "i", "e", "v", "e", "\"", " ", ",", " ", "\"",
      "r", "e", "a", "s", "o", "n", "\"", " ", ":", " ", "\"", "r", "\"",
      " ", "}">>,
    <<"{", "\"", "e", "x", "p", "l", "a", "n", "a", "t", "i", "o", "n",
      "\"", ":", "\"", "e", "\"", ",", "\"", "r", "o", "u", "t", "e", "\"",
      ":", "\"", "d", "i", "r", "e", "c", "t", "\"", ",", "\"", "r", "e",
      "a", "s", "o", "n", "\"", ":", "\"", "r", "\"", "}">>,
    <<"{", "\"", "r", "o", "u", "t", "e", "\"", ":", "\"", "D", "i", "r",
      "e", "c", "t", "\"", "}">>,
    <<"{", "\"", "r", "o", "u", "t", "e", "\"", ":", "\"", "d", "i", "r",
      "e", "c", "t", "\"", ",", "\"", "e", "x", "t", "r", "a", "\"", ":",
      "1", "}">>,
    <<"{", "\"", "r", "o", "u", "t", "e", "\"", ":", "\"", "d", "e", "t",
      "o", "u", "r", "\"", "}">>,
    <<"[", "\"", "r", "o", "u", "t", "e", "\"", "]">>,
    <<"{", "\"", "r", "e", "a", "s", "o", "n", "\"", ":", "\"", "r", "\"",
      "}">>,
    <<"\"", "d", "i", "r", "e", "c", "t", "\"">>,
    <<"{", "\"", "r", "o", "u", "t", "e", "\"", ":", "\"", "d", "i", "r",
      "e", "c", "t", "\"">>,
    <<"n", "u", "l", "l">>,
    <<"{", "\"", "r", "o", "u", "t", "e", "\"", ":", "\"", "d", "i", "r",
      "e", "c", "t", "\"", "}", " ", "o", "k">>,
    \* fenced blocks
    <<GraveAccent, GraveAccent, GraveAccent, "j", "s", "o", "n", "\n", "{",
      "\"", "r", "o", "u", "t", "e", "\"", ":", "\"", "d", "i", "r", "e",
      "c", "t", "\"", "}", "\n", GraveAccent, GraveAccent, GraveAccent>>,
    <<GraveAccent, GraveAccent, GraveAccent, "{", "\"", "r", "o", "u", "t",
      "e", "\"", ":", "\"", "r", "e", "t", "r", "i", "e", "v", "e", "\"",
      "}", GraveAccent, GraveAccent, GraveAccent>>,
    <<GraveAccent, GraveAccent, GraveAccent, "J", "S", "O", "N", " ", "{",
      "\"", "r", "o", "u", "t", "e", "\"", ":", "\"", "d", "i", "r", "e",
      "c", "t", "\"", "}", GraveAccent, GraveAccent, GraveAccent>>,
    <<GraveAccent, GraveAccent, GraveAccent, "j", "s", "o", "n", " ", "d",
      "i", "r", "e", "c", "t", GraveAccent, GraveAccent, GraveAccent>>,
    <<GraveAccent, GraveAccent, GraveAccent, "j", "s", "o", "n",
      GraveAccent, GraveAccent, GraveAccent>>,
    <<GraveAccent, GraveAccent, GraveAccent, "j", "s", "o", "n", " ", "{",
      "\"", "r", "o", "u", "t", "e", "\"", ":", "\"", "d", "i", "r", "e",
      "c", "t", "\"", ",", "\"", "e", "x", "t", "r", "a", "\"", ":", "1",
      "}", GraveAccent, GraveAccent, GraveAccent>>,
    <<GraveAccent, GraveAccent, GraveAccent, "j", "s", "o", "n", " ", "{",
      "\"", "r", "o", "u", "t", "e", "\"", ":", "\"", "d", "i", "r", "e",
      "c", "t", "\"", "}">>,
    <<GraveAccent, GraveAccent, GraveAccent, " ", "j", "s", "o", "n", " ",
      "{", "\"", "r", "o", "u", "t", "e", "\"", ":", "\"", "d", "i", "r",
      "e", "c", "t", "\"", "}", GraveAccent, GraveAccent, GraveAccent>>,
    <<GraveAccent, GraveAccent, GraveAccent, GraveAccent, GraveAccent>>,
    \* texts at and just above the ceiling on the length
    LongJson(240), LongJson(241), LongLine(240), LongLine(241) }

Pads == UNION {[1..n -> {" ", "\n"}] : n \in 0..MaxPad}

FilterTexts ==
  {before \o core \o after :
     before \in Pads, core \in FilterCores, after \in Pads}

FilterIdle ==
  /\ routeText = <<>>
  /\ routeVerdict = "none"

InitFilterVars ==
  /\ routeText \in FilterTexts
  /\ routeVerdict = "none"

Classify ==
  /\ routeVerdict = "none"
  /\ routeVerdict' = IF isInternalRouteDecisionPayload(routeText)
                     THEN "internal" ELSE "visible"
  /\ routeText' = routeText

(***************************************************************************)
(* The event classifier applied to one event and the content extractor     *)
(* applied to one content.                                                 *)
(***************************************************************************)
VARIABLES
  eventChunk,       \* the argument of the classifier functions
  parsedChunk,      \* the result of parseSSEMessageChunk, once done
  errorClass,       \* the results of the three error functions, once done
  messageContent,   \* the argument of extractMessageContent
  extractedContent  \* its result, once done

eventVars ==
  <<eventChunk, parsedChunk, errorClass, messageContent, extractedContent>>

\* the number of messages before the last one of a message list
MaxEarlier == 1

\* the number of parts of a content list
MaxParts == 2

\* an object literal: a property whose value is undefined is left out
WithKey(x, key, val) == IF val = Undefined THEN x ELSE SetKey(x, key, val)

EmptyObject == JObj(<<>>, <<>>)

MessagePayload(type, content, id) ==
  WithKey(WithKey(WithKey(EmptyObject, S_type, type), S_content, content),
          S_id, id)

Event(eventType, eventData) ==
  WithKey(WithKey(EmptyObject, S_event, eventType), S_data, eventData)

\* the parts of a content list: strings, parts with and without a text,
\* and values that are no parts
ContentParts ==
  { JStr(<<" ", "a">>), JStr(<<"b", " ">>), JStr(<<" ">>),
    JObj(<<S_text>>, <<JStr(<<"c">>)>>),
    JObj(<<S_text>>, <<JNum(1)>>),
    JObj(<<S_type>>, <<JStr(<<"i", "m", "a", "g", "e">>)>>),
    Null, JNum(5) }

ContentLists ==
  {JArr(parts) : parts \in UNION {[1..n -> ContentParts] : n \in 0..MaxParts}}

\* the shapes of a content: a string, a list, anything else
ContentShapes ==
  ContentLists
    \cup { JStr(T_hi), JStr(T_blank), JStr(<<>>), JStr(<<"h", "i", "\n">>),
           JNum(5), JBool(TRUE), Null, Undefined,
           JObj(<<S_text>>, <<JStr(<<"c">>)>>) }

\* the contents of the last message of a list
LastContents ==
  { JStr(T_hi), JStr(<<"h", "i">>), JStr(T_blank), JStr(T_routeJson),
    JArr(<<JStr(<<" ", "a">>), JObj(<<S_text>>, <<JStr(<<"b", " ">>)>>)>>),
    JArr(<<>>), Undefined }

MessageTypes ==
  { Undefined, JStr(T_ai),
    JStr(<<"a", "s", "s", "i", "s", "t", "a", "n", "t">>),
    JStr(<<"h", "u", "m", "a", "n">>), JStr(<<"A", "I">>) }

MessageIds == {Undefined, JStr(<<"m", "1">>), JNum(7)}

LastPayloads ==
  {MessagePayload(type, content, id) :
     type \in MessageTypes, content \in LastContents, id \in MessageIds}
    \cup {Null, JStr(<<"h", "i">>)}

EarlierPayloads ==
  { MessagePayload(JStr(<<"h", "u", "m", "a", "n">>), JStr(<<"x">>),
                   Undefined),
    MessagePayload(JStr(T_ai), JStr(<<"y">>), JStr(<<"m", "0">>)),
    Null }

MessageLists ==
  {<<>>} \cup
  {earlier \o <<lastMessage>> :
     earlier \in UNION {[1..n -> EarlierPayloads] : n \in 0..MaxEarlier},
     lastMessage \in LastPayloads}

\* the payloads of an error event, and payloads that hold no message list
OtherPayloads ==
  { Undefined, Null, JStr(T_boom), JStr(S_interrupt), JStr(<<>>),
    EmptyObject,
    JObj(<<S_message>>, <<JStr(S_interrupt)>>),
    JObj(<<S_message>>, <<JStr(T_boom)>>),
    JObj(<<S_message, S_error>>, <<JStr(S_interrupt), JStr(<<"e">>)>>),
    JObj(<<S_error>>, <<JStr(<<"e">>)>>),
    JObj(<<S_error>>, <<JStr(S_interrupt)>>),
    JObj(<<S_message, S_error>>, <<JNum(1), JStr(<<"e">>)>>),
    JObj(<<S_message>>, <<JNum(1)>>),
    JObj(<<S_error>>, <<JNum(1)>>),
    JObj(<<S_messages>>, <<JStr(<<"x">>)>>) }

EventPayloads ==
  {JArr(list) : list \in MessageLists}
    \cup {JObj(<<S_messages>>, <<JArr(list)>>) : list \in MessageLists}
    \cup OtherPayloads

\* the discriminators: absent, three with the message prefix, one that
\* lacks its last letter, and others
EventTypes ==
  { Undefined, JStr(MESSAGE_EVENT_PREFIX), JStr(T_partial),
    JStr(<<"m", "e", "s", "s", "a", "g", "e">>), JStr(T_metadata),
    JStr(ERROR_EVENT), JStr(<<"e", "r", "r", "o", "r", "s">>) }

EventChunks ==
  {Event(eventType, eventData) :
     eventType \in EventTypes, eventData \in EventPayloads}
    \cup {Null, Undefined, JStr(ERROR_EVENT), JArr(<<>>)}

NotParsed == [done |-> FALSE, chunk |-> Null]

NotClassified ==
  [done |-> FALSE, isError |-> FALSE, isInterrupted |-> FALSE,
   message |-> Null]

NoContent == [done |-> FALSE, result |-> Null]

EventIdle ==
  /\ eventChunk = Undefined
  /\ parsedChunk = NotParsed
  /\ errorClass = NotClassified
  /\ messageContent = Undefined
  /\ extractedContent = NoContent

InitEventVars ==
  /\ eventChunk \in EventChunks
  /\ parsedChunk = NotParsed
  /\ errorClass = NotClassified
  /\ messageContent = Undefined
  /\ extractedContent = NoContent

InitContentVars ==
  /\ eventChunk = Undefined
  /\ parsedChunk = NotParsed
  /\ errorClass = NotClassified
  /\ messageContent \in ContentShapes
  /\ extractedContent = NoContent

ParseMessage ==
  /\ ~parsedChunk.done
  /\ parsedChunk' = [done |-> TRUE, chunk |-> parseSSEMessageChunk(eventChunk)]
  /\ UNCHANGED <<eventChunk, errorClass, messageContent, extractedContent>>

ClassifyError ==
  /\ ~errorClass.done
  /\ errorClass' =
       [done |-> TRUE,
        isError |-> isSSEErrorEvent(eventChunk),
        isInterrupted |-> isSSEInterruptedErrorEvent(eventChunk),
        message |-> extractSSEErrorMessage(eventChunk)]
  /\ UNCHANGED <<eventChunk, parsedChunk, messageContent, extractedContent>>

ExtractContent ==
  /\ ~extractedContent.done
  /\ extractedContent' =
       [done |-> TRUE, result |-> extractMessageContent(messageContent)]
  /\ UNCHANGED <<eventChunk, parsedChunk, errorClass, messageContent>>

(***************************************************************************)
(* frontend/app/api/chat/route.ts: the chat endpoint.  The repository      *)
(* holds the handler twice: the file of that path, whose validateRequest   *)
(* tests the two types only, and a second copy with limits on the lengths  *)
(* and a test of the message history.  Both are modelled; routeFile says   *)
(* which one serves the request.                                           *)
(***************************************************************************)
VARIABLES
  routeFile,      \* the copy of the handler that serves the request
  requestBody,    \* what request.json() gives, or Unparsable
  routePc,        \* where the handler stands
  routeResponse,  \* the response, once returned
  upstream        \* the calls made on the LangGraph client

routeVars == <<routeFile, requestBody, routePc, routeResponse, upstream>>

MAX_MESSAGE_LENGTH == 10000

MAX_THREAD_ID_LENGTH == 200

\* the number of messages of a message history
MaxHistory == 2

S_threadId ==
  <<"t", "h", "r", "e", "a", "d", "I", "d">>

S_messagesBeforeEdit ==
  <<"m", "e", "s", "s", "a", "g", "e", "s", "B", "e", "f", "o", "r", "e",
    "E", "d", "i", "t">>

S_role ==
  <<"r", "o", "l", "e">>

S_user ==
  <<"u", "s", "e", "r">>

S_assistant ==
  <<"a", "s", "s", "i", "s", "t", "a", "n", "t">>

\* the body of a request whose text is no JSON document
Unparsable == [t |-> "unparsable"]

RouteFiles == {"route.ts", "limits"}

isValidMessageHistory(value) ==
  IF value = Undefined THEN TRUE
  ELSE IF ~IsArray(value) THEN FALSE
  ELSE \A i \in 1..Len(value.a) :
         /\ Truthy(value.a[i])
         /\ IsObjectLike(value.a[i])
         /\ HasKey(value.a[i], S_role)
         /\ HasKey(value.a[i], S_content)
         /\ Get(value.a[i], S_role) \in {JStr(S_user), JStr(S_assistant)}
         /\ IsString(Get(value.a[i], S_content))

\* validateRequest of the copy with limits
validateRequest(payload) ==
  LET Sized(trimmedMessage, trimmedThreadId) ==
        IF trimmedMessage = <<>> \/ trimmedThreadId = <<>> THEN FALSE
        ELSE IF \/ Len(trimmedMessage) > MAX_MESSAGE_LENGTH
                \/ Len(trimmedThreadId) > MAX_THREAD_ID_LENGTH
        THEN FALSE
        ELSE isValidMessageHistory(Get(payload, S_messagesBeforeEdit))
  IN IF ~Truthy(payload) \/ ~IsObjectLike(payload) THEN FALSE
     ELSE IF \/ ~IsString(Get(payload, S_message))
             \/ ~IsString(Get(payload, S_threadId))
     THEN FALSE
     ELSE Sized(trim(Get(payload, S_message).s), trim(Get(payload, S_threadId).s))

\* validateRequest of frontend/app/api/chat/route.ts
validateRequestTypes(payload) ==
  IF ~Truthy(payload) \/ ~IsObjectLike(payload) THEN FALSE
  ELSE IsString(Get(payload, S_message)) /\ IsString(Get(payload, S_threadId))

\* messagesBeforeEdit.map((m) => ...) reads m.role: a TypeError for null
MapThrows(history) ==
  \E i \in 1..Len(history.a) : history.a[i].t \in {"null", "undefined"}

\* errorResponse, and the response that carries the event stream
errorResponse(status) == [status |-> status, body |-> "error"]

StreamResponse == [status |-> 200, body |-> "stream"]

NoResponse == [status |-> 0, body |-> "none"]

NoCalls == [updateState |-> 0, stream |-> 0, query |-> <<>>]

\* the message the handler hands on: the copy with limits trims it
Query ==
  IF routeFile = "limits"
  THEN trim(Get(requestBody, S_message).s)
  ELSE Get(requestBody, S_message).s

Responds(response) ==
  /\ routePc' = "responded"
  /\ routeResponse' = response
  /\ UNCHANGED <<routeFile, requestBody, upstream>>

\* client.runs.stream is called
OpensStream ==
  /\ routePc' = "openingStream"
  /\ upstream' = [upstream EXCEPT !.stream = 1, !.query = Query]
  /\ UNCHANGED <<routeFile, requestBody, routeResponse>>

\* client.threads.updateState is called
UpdatesState ==
  /\ routePc' = "updatingState"
  /\ upstream' = [upstream EXCEPT !.updateState = 1]
  /\ UNCHANGED <<routeFile, requestBody, routeResponse>>

\* POST, up to its first call on the client
POST ==
  /\ routePc = "received"
  /\ IF requestBody = Unparsable THEN Responds(errorResponse(500))
     ELSE IF routeFile = "limits" /\ ~validateRequest(requestBody)
     THEN Responds(errorResponse(400))
     ELSE IF routeFile = "route.ts" /\ ~validateRequestTypes(requestBody)
     THEN Responds(errorResponse(400))
     ELSE IF ~IsArray(Get(requestBody, S_messagesBeforeEdit))
     THEN OpensStream
     ELSE IF MapThrows(Get(requestBody, S_messagesBeforeEdit))
     THEN Responds(errorResponse(500))
     ELSE UpdatesState

UpdateOutcomes == {"ok", "noGraphId", "fails"}

\* POST, after client.threads.updateState settles
UpdateStateSettles(outcome) ==
  /\ routePc = "updatingState"
  /\ IF outcome = "ok" \/ (outcome = "noGraphId" /\ routeFile = "limits")
     THEN OpensStream
     ELSE Responds(errorResponse(500))

\* POST, after client.runs.stream settles
StreamSettles(opened) ==
  /\ routePc = "openingStream"
  /\ IF opened THEN Responds(StreamResponse)
     ELSE Responds(errorResponse(500))

\* the bodies of the requests
RequestMessages ==
  { Undefined, JNum(1), JStr(<<>>), JStr(T_blank), JStr(<<"h", "i">>),
    JStr(T_hi),
    JStr(Repeat("x", MAX_MESSAGE_LENGTH)),
    JStr(Repeat("x", MAX_MESSAGE_LENGTH + 1)),
    JStr(<<" ">> \o Repeat("x", MAX_MESSAGE_LENGTH)) }

RequestThreadIds ==
  { Undefined, JNum(1), JStr(<<" ">>), JStr(<<"t", "1">>),
    JStr(Repeat("t", MAX_THREAD_ID_LENGTH)),
    JStr(Repeat("t", MAX_THREAD_ID_LENGTH + 1)) }

HistoryItems ==
  { JObj(<<S_role, S_content>>, <<JStr(S_user), JStr(<<"h", "i">>)>>),
    JObj(<<S_role, S_content>>, <<JStr(S_assistant), JStr(T_answer)>>),
    JObj(<<S_role, S_content>>,
         <<JStr(<<"s", "y", "s", "t", "e", "m">>), JStr(<<"h", "i">>)>>),
    JObj(<<S_role, S_content>>, <<JStr(S_user), JNum(1)>>),
    JObj(<<S_role>>, <<JStr(S_user)>>),
    Null }

RequestHistories ==
  {JArr(items) :
     items \in UNION {[1..n -> HistoryItems] : n \in 0..MaxHistory}}
    \cup {Undefined, Null, JStr(<<"x">>)}

RequestBodies ==
  {WithKey(WithKey(WithKey(EmptyObject, S_message, message),
                   S_threadId, thread),
           S_messagesBeforeEdit, history) :
     message \in RequestMessages, thread \in RequestThreadIds,
     history \in RequestHistories}
    \cup {Unparsable, Null, JStr(<<"h", "i">>), JArr(<<>>)}

RouteIdle ==
  /\ routeFile = "limits"
  /\ requestBody = Unparsable
  /\ routePc = "responded"
  /\ routeResponse = NoResponse
  /\ upstream = NoCalls

InitRouteVars ==
  /\ routeFile \in RouteFiles
  /\ requestBody \in RequestBodies
  /\ routePc = "received"
  /\ routeResponse = NoResponse
  /\ upstream = NoCalls

(***************************************************************************)
(* frontend/app/api/chat/route.ts: the response stream.  POST wraps the    *)
(* iterator that client.runs.stream returned in a ReadableStream whose     *)
(* start() forwards every chunk as one frame.  In this part of the model   *)
(* body.tail holds the bytes the controller has accepted so far, and the   *)
(* stream reader of the browser reads them while the endpoint writes.      *)
(***************************************************************************)
VARIABLES
  eventStream,  \* what the upstream iterator does: the chunks it yields
                \* and whether it throws after the last of them
  ssePc,        \* start() is "iterating" or has "finished"
  sseNext,      \* number of chunks start() has taken from the iterator
  sseState,     \* state of the ReadableStream: "readable", "closed" by
                \* controller.close(), "cancelled" by its consumer
  closeCalls    \* number of calls of controller.close()

wireVars == <<eventStream, ssePc, sseNext, sseState, closeCalls>>

\* the number of chunks of an upstream iterator
MaxWire == 2

\* TextEncoder.encode: UTF-8, for ASCII text and U+00E9
EncodeChar(c) == IF c = CharE9 THEN <<LeadByte, ContinuationByte>> ELSE <<c>>

TextEncode(text) == joinEmpty([i \in 1..Len(text) |-> EncodeChar(text[i])])

\* A variant of formatSSEData that ends the frame with one line feed.
formatSSEData_oneLineFeed(data) ==
  DATA_PREFIX \o <<" ">> \o SerializeValue(data) \o <<"\n">>

\* the template literal of formatSSEData; String(undefined) is "undefined"
formatSSEData(data) ==
  LET Frame(json) ==
        DATA_PREFIX \o <<" ">>
          \o (IF json = Undefined
              THEN <<"u", "n", "d", "e", "f", "i", "n", "e", "d">>
              ELSE json.s)
          \o EVENT_DELIMITER
  IN Frame(JSONstringify(data))

\* the chunks an upstream iterator may yield
WireEvents ==
  { JStr(EVENT_DELIMITER),
    JStr(<<"\"", "\\", CharE9>>),
    JObj(<< <<"a", " ">> >>, <<JArr(<<JNum(10), Null, JBool(TRUE)>>)>>),
    Null }

EventStreams ==
  [chunks : UNION {[1..n -> WireEvents] : n \in 0..MaxWire},
   fails : BOOLEAN]

\* the event written by the catch block for an Error whose message is text
StreamErrorEvent(text) ==
  JObj(<<S_event, S_data>>,
       <<JStr(ERROR_EVENT), JObj(<<S_message>>, <<JStr(text)>>)>>)

WireIdle ==
  /\ eventStream = [chunks |-> <<>>, fails |-> FALSE]
  /\ ssePc = "finished"
  /\ sseNext = 0
  /\ sseState = "closed"
  /\ closeCalls = 1

InitWireVars ==
  /\ eventStream \in EventStreams
  /\ ssePc = "iterating"
  /\ sseNext = 0
  /\ sseState = "readable"
  /\ closeCalls = 0

\* controller.enqueue(encoder.encode(formatSSEData(data))) on a stream that
\* is readable
Enqueue(data) ==
  body' = [body EXCEPT !.tail = @ \o TextEncode(formatSSEData(data))]

\* A variant of the finally block that leaves the stream open.
Close_leavesOpen ==
  /\ sseState' = sseState
  /\ closeCalls' = closeCalls

\* controller.close() on a stream that is readable
Close ==
  /\ sseState' = "closed"
  /\ closeCalls' = closeCalls + 1

\* The stream is no longer readable: controller.enqueue throws a TypeError,
\* the enqueue of the catch block throws as well and controller.close() of
\* the finally block is called and throws too.
EnqueueThrows ==
  /\ body' = body
  /\ sseState' = sseState
  /\ closeCalls' = closeCalls + 1
  /\ ssePc' = "finished"

\* the body of the for await loop
SseForward ==
  /\ ssePc = "iterating"
  /\ sseNext < Len(eventStream.chunks)
  /\ sseNext' = sseNext + 1
  /\ IF sseState = "readable"
     THEN /\ Enqueue(eventStream.chunks[sseNext + 1])
          /\ UNCHANGED <<ssePc, sseState, closeCalls>>
     ELSE EnqueueThrows
  /\ UNCHANGED <<eventStream, hasBody, delivered, genPc, readerHeld,
                 decoderLead, buffer, parsedQueue, yielded, releaseCount,
                 exitPath>>

\* the iterator is exhausted: the finally block
SseEnds ==
  /\ ssePc = "iterating"
  /\ sseNext = Len(eventStream.chunks)
  /\ ~eventStream.fails
  /\ ssePc' = "finished"
  /\ IF sseState = "readable" THEN Close
     ELSE /\ sseState' = sseState
          /\ closeCalls' = closeCalls + 1
  /\ UNCHANGED <<eventStream, sseNext, streamVars>>

\* the iterator throws: the catch block, then the finally block
SseFails ==
  /\ ssePc = "iterating"
  /\ sseNext = Len(eventStream.chunks)
  /\ eventStream.fails
  /\ IF sseState = "readable"
     THEN /\ Enqueue(StreamErrorEvent(T_boom))
          /\ Close
          /\ ssePc' = "finished"
     ELSE EnqueueThrows
  /\ UNCHANGED <<eventStream, sseNext, hasBody, delivered, genPc,
                 readerHeld, decoderLead, buffer, parsedQueue, yielded,
                 releaseCount, exitPath>>

\* the consumer of the response cancels the stream (the request was
\* aborted or the connection lost)
SseCancel ==
  /\ sseState = "readable"
  /\ sseState' = "cancelled"
  /\ UNCHANGED <<eventStream, ssePc, sseNext, closeCalls, streamVars>>

\* reader.read() of the browser reports the end once the endpoint has
\* closed the stream and every byte was read
WireReadDone ==
  /\ sseState = "closed"
  /\ ReadDone
  /\ UNCHANGED wireVars

(***************************************************************************)
(* frontend/lib/utils/sse.ts: the node metadata of a metadata event, and   *)
(* the three classifications of one event side by side.                    *)
(***************************************************************************)
VARIABLES
  nodeMetadata  \* the result of extractSSEMessageNodeMetadata, once done

METADATA_EVENT ==
  <<"m", "e", "s", "s", "a", "g", "e", "s", "/", "m", "e", "t", "a", "d",
    "a", "t", "a">>

S_langgraph_node ==
  <<"l", "a", "n", "g", "g", "r", "a", "p", "h", "_", "n", "o", "d", "e">>

\* Object.entries: the keys of an array are its indices
EntryKeys(x) ==
  IF IsArray(x) THEN [i \in 1..Len(x.a) |-> NumberText(i - 1)] ELSE x.k

EntryValues(x) == IF IsArray(x) THEN x.a ELSE x.v

\* the body of the loop over the entries: the node name that is recorded
\* for an entry, Undefined when the entry is skipped
RecordedNode(messageMetadata) ==
  LET Name(nodeName) ==
        IF IsString(nodeName) /\ trim(nodeName.s) # <<>> THEN nodeName
        ELSE Undefined
      Metadata(metadata) ==
        IF ~Truthy(metadata) \/ ~IsObjectLike(metadata) THEN Undefined
        ELSE Name(Get(metadata, S_langgraph_node))
  IN IF ~Truthy(messageMetadata) \/ ~IsObjectLike(messageMetadata)
     THEN Undefined
     ELSE Metadata(Get(messageMetadata, T_metadata))

extractSSEMessageNodeMetadata(sseEvent) ==
  LET Recorded(keys, nodes) ==
        LET kept == SelectSeq([i \in 1..Len(keys) |-> i],
                              LAMBDA i : nodes[i] # Undefined)
        IN JObj([n \in 1..Len(kept) |-> keys[kept[n]]],
                [n \in 1..Len(kept) |-> nodes[kept[n]]])
      Entries(data) ==
        Recorded(EntryKeys(data),
                 [i \in 1..Len(EntryValues(data)) |->
                    RecordedNode(EntryValues(data)[i])])
      Data(metadataEventData) ==
        IF ~Truthy(metadataEventData) \/ ~IsObjectLike(metadataEventData)
        THEN EmptyObject
        ELSE Entries(metadataEventData)
  IN IF \/ ~Truthy(sseEvent)
        \/ ~IsObjectLike(sseEvent)
        \/ ~HasKey(sseEvent, S_event)
        \/ Get(sseEvent, S_event) # JStr(METADATA_EVENT)
     THEN EmptyObject
     ELSE Data(Get(sseEvent, S_data))

\* the metadata of a message that names its node
NodeOf(name) ==
  JObj(<<T_metadata>>, <<JObj(<<S_langgraph_node>>, <<JStr(name)>>)>>)

\* the payloads of the events that are classified three ways
KindPayloads ==
  { JObj(<< <<"m", "1">> >>, <<NodeOf(<<"g", "e", "n">>)>>),
    JObj(<< <<"m", "1">> >>, <<NodeOf(<<" ">>)>>),
    JObj(<< <<"m", "1">>, S_messages >>,
         <<NodeOf(<<"g", "e", "n">>),
           JArr(<<MessagePayload(JStr(T_ai), JStr(T_hi), Undefined)>>)>>),
    JArr(<<WithKey(MessagePayload(Undefined, JStr(T_hi), Undefined),
                   T_metadata, Get(NodeOf(<<"g", "e", "n">>), T_metadata))>>),
    JArr(<<MessagePayload(JStr(T_ai), JStr(T_hi), JStr(<<"m", "1">>))>>),
    JObj(<<S_message>>, <<JStr(T_boom)>>),
    JStr(T_boom),
    EmptyObject,
    Null }

KindTypes ==
  { Undefined, JStr(METADATA_EVENT), JStr(MESSAGE_EVENT_PREFIX),
    JStr(T_partial), JStr(T_metadata), JStr(ERROR_EVENT) }

KindChunks ==
  {Event(eventType, eventData) :
     eventType \in KindTypes, eventData \in KindPayloads}

NoNodes == [done |-> FALSE, nodes |-> EmptyObject]

KindIdle == nodeMetadata = NoNodes

InitKindVars ==
  /\ eventChunk \in KindChunks
  /\ parsedChunk = NotParsed
  /\ errorClass = NotClassified
  /\ messageContent = Undefined
  /\ extractedContent = NoContent
  /\ nodeMetadata = NoNodes

ExtractNodes ==
  /\ ~nodeMetadata.done
  /\ nodeMetadata' =
       [done |-> TRUE, nodes |-> extractSSEMessageNodeMetadata(eventChunk)]
  /\ UNCHANGED eventVars

(***************************************************************************)
(* How often the events of a submission have set the tracked run id.       *)
(***************************************************************************)
VARIABLES
  runIdSets  \* for every submission, the number of its events that set
             \* currentRunIdRef.current, counted up to MaxRunIdSets

MaxRunIdSets == 2

HistoryIdle == runIdSets = <<>>

InitHistory == runIdSets = [s \in 1..MaxRaceSubmits |-> 0]

\* the step is an event of submission s that sets the run id
SetsRunId(s) ==
  /\ subs[s] = "stream"
  /\ subs'[s] = "stream"
  /\ currentRunIdRef = Null
  /\ currentRunIdRef' # Null

CountsRunIdSet(s) ==
  runIdSets' =
    IF SetsRunId(s) /\ runIdSets[s] < MaxRunIdSets
    THEN [runIdSets EXCEPT ![s] = @ + 1]
    ELSE runIdSets

(***************************************************************************)
(* The retrieval graph: checkQueryType, the conditional edge routeQuery    *)
(* and the nodes of the two paths.  Every node awaits calls on a model or  *)
(* a retriever; such a call returns or throws, and only the structured     *)
(* output call of checkQueryType is made inside a try block.               *)
(***************************************************************************)
VARIABLES
  graphPc,     \* the node the run is about to execute, "routing" while the
               \* conditional edge is evaluated, "END", or "failed" when a
               \* node threw
  graphRoute,  \* the channel route of the state of the graph
  graphPath,   \* the nodes that have run, in order
  graphError   \* the call whose exception ended the run, "none" if none

graphVars == <<graphPc, graphRoute, graphPath, graphError>>

N_checkQueryType == "checkQueryType"

N_retrieveDocuments == "retrieveDocuments"

N_generateResponse == "generateResponse"

N_directAnswer == "directAnswer"

\* the values of the channel route: the two of the schema, other casings
\* and spellings, text that is not a route, values that are no strings
RouteValues ==
  { Undefined, Null, JStr(<<>>), JStr(<<" ">>), JStr(S_direct),
    JStr(S_retrieve), JStr(<<" ", "D", "i", "r", "e", "c", "t", "\n">>),
    JStr(<<"D", "I", "R", "E", "C", "T", "L", "Y">>),
    JStr(<<"r", "e", "t", "r", "i", "e", "v", "a", "l">>),
    JStr(<<"i", "n", "d", "i", "r", "e", "c", "t">>),
    JStr(<<"R", "e", "t", "r", "i", "e", "v", "e">>),
    JStr(<<"d", "i", "r", "e", "c", "t", "-", "a", "n", "s", "w", "e", "r">>),
    JStr(<<"o", "t", "h", "e", "r">>), JNum(5), JBool(TRUE) }

\* value?.toString() of a route value
RouteText(value) ==
  CASE value.t = "string" -> JStr(value.s)
    [] value.t = "number" -> JStr(NumberText(value.n))
    [] value.t = "boolean" ->
         JStr(IF value.b THEN <<"t", "r", "u", "e">>
              ELSE <<"f", "a", "l", "s", "e">>)
    [] OTHER -> Undefined

\* A variant of routeQuery that takes the route as it is written.
routeQuery_exactMatch(route) ==
  IF route = JStr(S_direct) THEN N_directAnswer ELSE N_retrieveDocuments

routeQuery(route) ==
  LET Routed(normalizedRoute) ==
        IF normalizedRoute = <<>> THEN N_retrieveDocuments
        ELSE IF startsWith(normalizedRoute, S_retrieve)
        THEN N_retrieveDocuments
        ELSE IF startsWith(normalizedRoute, S_direct) THEN N_directAnswer
        ELSE N_retrieveDocuments
      Text(text) ==
        IF text = Undefined THEN N_retrieveDocuments
        ELSE Routed(toLowerCase(trim(text.s)))
  IN Text(RouteText(route))

GraphIdle ==
  /\ graphPc = "END"
  /\ graphRoute = Undefined
  /\ graphPath = <<>>
  /\ graphError = "none"

\* a run starts with the input of its caller, which may hold a route
InitGraphVars ==
  /\ graphPc = N_checkQueryType
  /\ graphRoute \in RouteValues
  /\ graphPath = <<>>
  /\ graphError = "none"

\* a call made outside a try block throws: the run ends with the error
NodeThrows(call) ==
  /\ graphPc' = "failed"
  /\ graphError' = call
  /\ graphRoute' = graphRoute

\* what the calls of checkQueryType may do: loadChatModel or the prompt
\* throws, the structured output call throws, or it returns a route
ClassifierOutcomes ==
  {[call |-> c, route |-> Undefined] :
     c \in {"loadChatModel", "routingPrompt", "structuredOutput"}}
    \cup {[call |-> "none", route |-> r] : r \in RouteValues}

checkQueryType(outcome) ==
  /\ graphPc = N_checkQueryType
  /\ graphPath' = Append(graphPath, N_checkQueryType)
  /\ IF outcome.call \in {"loadChatModel", "routingPrompt"}
     THEN NodeThrows(outcome.call)
     ELSE /\ graphPc' = "routing"
          /\ graphError' = graphError
          /\ graphRoute' = IF outcome.call = "structuredOutput"
                           THEN JStr(S_retrieve)
                           ELSE outcome.route

\* the conditional edge after checkQueryType
RouteEdge ==
  /\ graphPc = "routing"
  /\ graphPc' = routeQuery(graphRoute)
  /\ UNCHANGED <<graphRoute, graphPath, graphError>>

\* a node of one of the two paths runs: its awaited call returns and the
\* run follows the edge of the node, or the call throws
RunsNode(node, call, next, returns) ==
  /\ graphPc = node
  /\ graphPath' = Append(graphPath, node)
  /\ IF returns
     THEN /\ graphPc' = next
          /\ UNCHANGED <<graphRoute, graphError>>
     ELSE NodeThrows(call)

retrieveDocuments(returns) ==
  RunsNode(N_retrieveDocuments, "retriever", N_generateResponse, returns)

generateResponse(returns) ==
  RunsNode(N_generateResponse, "model", "END", returns)

answerQueryDirectly(returns) ==
  RunsNode(N_directAnswer, "model", "END", returns)

\* the groups of variables that the specifications below leave alone
restVars == <<wireVars, nodeMetadata, runIdSets, graphVars>>

RestIdle == WireIdle /\ KindIdle /\ HistoryIdle /\ GraphIdle

(***************************************************************************)
(* The frame decoder applied to one buffer and the chunk extractor applied *)
(* to one message event.                                                   *)
(***************************************************************************)
VARIABLES
  bufferString,    \* the argument of processSSEBuffer
  decodedBuffer,   \* its result, once done
  chunkText,       \* the text of the last message of a message event
  extractedChunk   \* the result of parseSSEMessageChunk, once done

decoderVars == <<bufferString, decodedBuffer, chunkText, extractedChunk>>

pureVars == <<filterVars, decoderVars, eventVars, routeVars, restVars>>

vars == <<streamVars, sessionVars, pureVars>>

\* the number of pieces a buffer is put together from
MaxAtoms == 4

\* the pieces: a line feed, two frames and a line without the data prefix
BufferAtoms ==
  { <<"\n">>,
    <<"d", "a", "t", "a", ":", "1">>,
    <<"d", "a", "t", "a", ":", "2">>,
    <<"x">> }

BufferStrings ==
  {joinEmpty(atoms) :
     atoms \in UNION {[1..n -> BufferAtoms] : n \in 0..MaxAtoms}}

NotDecoded ==
  [done |-> FALSE, parsedEvents |-> <<>>, remainingBuffer |-> <<>>]

NotExtracted == [done |-> FALSE, chunk |-> Null]

DecoderIdle ==
  /\ bufferString = <<>>
  /\ decodedBuffer = NotDecoded
  /\ chunkText = <<>>
  /\ extractedChunk = NotExtracted

InitBufferVars ==
  /\ bufferString \in BufferStrings
  /\ decodedBuffer = NotDecoded
  /\ chunkText = <<>>
  /\ extractedChunk = NotExtracted

InitChunkVars ==
  /\ bufferString = <<>>
  /\ decodedBuffer = NotDecoded
  /\ chunkText \in FilterTexts
  /\ extractedChunk = NotExtracted

Decode ==
  /\ ~decodedBuffer.done
  /\ LET Decoded(result) ==
           [done |-> TRUE, parsedEvents |-> result.parsedEvents,
            remainingBuffer |-> result.remainingBuffer]
     IN decodedBuffer' = Decoded(processSSEBuffer(bufferString))
  /\ UNCHANGED <<bufferString, chunkText, extractedChunk>>

Extract ==
  /\ ~extractedChunk.done
  /\ extractedChunk' =
       [done |-> TRUE,
        chunk |-> parseSSEMessageChunk(MessagesEvent(chunkText))]
  /\ UNCHANGED <<bufferString, decodedBuffer, chunkText>>

(***************************************************************************)
(* The specifications.                                                     *)
(***************************************************************************)
\* the stream reader left alone
StreamIdle ==
  /\ body = [frames |-> <<>>, tail |-> <<>>]
  /\ hasBody = TRUE
  /\ delivered = 0
  /\ genPc = "created"
  /\ readerHeld = FALSE
  /\ decoderLead = FALSE
  /\ buffer = <<>>
  /\ parsedQueue = <<>>
  /\ yielded = <<>>
  /\ releaseCount = 0
  /\ exitPath = "none"

\* The chat session.
Init ==
  InitSession(MaxSubmits) /\ StreamIdle /\ FilterIdle /\ DecoderIdle
    /\ EventIdle /\ RouteIdle /\ RestIdle

Next ==
  \/ \E text \in SubmitTexts :
       Submit(text) /\ UNCHANGED <<streamVars, pureVars>>
  \/ retryLastMessage /\ UNCHANGED <<streamVars, pureVars>>
  \/ \E i \in 1..(Len(messages) + 1), text \in SubmitTexts :
       editAndResubmitMessage(i, text) /\ UNCHANGED <<streamVars, pureVars>>
  \/ \E s \in SubIds : FetchResponds(s) /\ UNCHANGED <<streamVars, pureVars>>
  \/ \E s \in SubIds : FetchFails(s) /\ UNCHANGED <<streamVars, pureVars>>
  \/ \E s \in SubIds, i \in 1..Len(SessionEvents) :
       StreamEvent(s, i) /\ UNCHANGED <<streamVars, pureVars>>
  \/ \E s \in SubIds : StreamDone(s) /\ UNCHANGED <<streamVars, pureVars>>
  \/ \E s \in SubIds : StreamFails(s) /\ UNCHANGED <<streamVars, pureVars>>
  \/ stop /\ UNCHANGED <<streamVars, pureVars>>
  \/ StopSettles /\ UNCHANGED <<streamVars, pureVars>>
  \/ newChat /\ UNCHANGED <<streamVars, pureVars>>
  \/ NewChatStopSettles /\ UNCHANGED <<streamVars, pureVars>>
  \/ NewChatCreated /\ UNCHANGED <<streamVars, pureVars>>
  \/ initializeThread /\ UNCHANGED <<streamVars, pureVars>>
  \/ \E m \in StoredMessages :
       loadSession(StoredThread, m) /\ UNCHANGED <<streamVars, pureVars>>

Spec == Init /\ [][Next]_vars

\* The chat session of a user who only submits and stops.
InitRace ==
  InitSession(MaxRaceSubmits) /\ StreamIdle /\ FilterIdle /\ DecoderIdle
    /\ EventIdle /\ RouteIdle /\ RestIdle

NextRace ==
  \/ initializeThread /\ UNCHANGED <<streamVars, pureVars>>
  \/ \E text \in SubmitTexts :
       Submit(text) /\ UNCHANGED <<streamVars, pureVars>>
  \/ \E s \in SubIds : FetchResponds(s) /\ UNCHANGED <<streamVars, pureVars>>
  \/ \E s \in SubIds : FetchFails(s) /\ UNCHANGED <<streamVars, pureVars>>
  \/ \E s \in SubIds, i \in 1..Len(SessionEvents) :
       StreamEvent(s, i) /\ UNCHANGED <<streamVars, pureVars>>
  \/ \E s \in SubIds : StreamDone(s) /\ UNCHANGED <<streamVars, pureVars>>
  \/ \E s \in SubIds : StreamFails(s) /\ UNCHANGED <<streamVars, pureVars>>
  \/ stop /\ UNCHANGED <<streamVars, pureVars>>
  \/ StopSettles /\ UNCHANGED <<streamVars, pureVars>>

SpecRace == InitRace /\ [][NextRace]_vars

\* The chat session of a user who submits, stops, retries and edits.
NextRaceEdit ==
  \/ NextRace
  \/ retryLastMessage /\ UNCHANGED <<streamVars, pureVars>>
  \/ \E i \in 1..(Len(messages) + 1), text \in SubmitTexts :
       editAndResubmitMessage(i, text) /\ UNCHANGED <<streamVars, pureVars>>

SpecRaceEdit == InitRace /\ [][NextRaceEdit]_vars

\* The stream reader.
InitStream ==
  InitStreamVars /\ InitSession(MaxSubmits) /\ FilterIdle /\ DecoderIdle
    /\ EventIdle /\ RouteIdle /\ RestIdle

NextStream ==
  \/ GenStart /\ UNCHANGED <<sessionVars, pureVars>>
  \/ ReadChunk /\ UNCHANGED <<sessionVars, pureVars>>
  \/ ReadDone /\ UNCHANGED <<sessionVars, pureVars>>
  \/ ReadThrows /\ UNCHANGED <<sessionVars, pureVars>>
  \/ Pull /\ UNCHANGED <<sessionVars, pureVars>>
  \/ ConsumerReturn /\ UNCHANGED <<sessionVars, pureVars>>

SpecStream == InitStream /\ [][NextStream]_vars

\* The filter.
InitFilter ==
  InitFilterVars /\ StreamIdle /\ InitSession(MaxSubmits) /\ DecoderIdle
    /\ EventIdle /\ RouteIdle /\ RestIdle

NextFilter ==
  Classify
    /\ UNCHANGED
         <<streamVars, sessionVars, decoderVars, eventVars, routeVars,
           restVars>>

SpecFilter == InitFilter /\ [][NextFilter]_vars

\* The frame decoder.
InitBuffer ==
  InitBufferVars /\ StreamIdle /\ InitSession(MaxSubmits) /\ FilterIdle
    /\ EventIdle /\ RouteIdle /\ RestIdle

NextBuffer ==
  Decode
    /\ UNCHANGED
         <<streamVars, sessionVars, filterVars, eventVars, routeVars,
           restVars>>

SpecBuffer == InitBuffer /\ [][NextBuffer]_vars

\* The chunk extractor.
InitChunk ==
  InitChunkVars /\ StreamIdle /\ InitSession(MaxSubmits) /\ FilterIdle
    /\ EventIdle /\ RouteIdle /\ RestIdle

NextChunk ==
  Extract
    /\ UNCHANGED
         <<streamVars, sessionVars, filterVars, eventVars, routeVars,
           restVars>>

SpecChunk == InitChunk /\ [][NextChunk]_vars

\* The event classifier.
IdleButEvents ==
  StreamIdle /\ InitSession(MaxSubmits) /\ FilterIdle /\ DecoderIdle
    /\ RouteIdle /\ RestIdle

InitEvent == InitEventVars /\ IdleButEvents

NextEvent ==
  \/ ParseMessage
       /\ UNCHANGED
         <<streamVars, sessionVars, filterVars, decoderVars, routeVars,
           restVars>>
  \/ ClassifyError
       /\ UNCHANGED
         <<streamVars, sessionVars, filterVars, decoderVars, routeVars,
           restVars>>

SpecEvent == InitEvent /\ [][NextEvent]_vars

\* The content extractor.
InitContent == InitContentVars /\ IdleButEvents

NextContent ==
  ExtractContent
    /\ UNCHANGED
         <<streamVars, sessionVars, filterVars, decoderVars, routeVars,
           restVars>>

SpecContent == InitContent /\ [][NextContent]_vars

\* The chat endpoint.
InitRoute ==
  InitRouteVars /\ StreamIdle /\ InitSession(MaxSubmits) /\ FilterIdle
    /\ DecoderIdle /\ EventIdle /\ RestIdle

NextRoute ==
  \/ POST /\ UNCHANGED <<streamVars, sessionVars, filterVars, decoderVars,
                         eventVars, restVars>>
  \/ \E outcome \in UpdateOutcomes :
       UpdateStateSettles(outcome)
         /\ UNCHANGED <<streamVars, sessionVars, filterVars, decoderVars,
                        eventVars, restVars>>
  \/ \E opened \in BOOLEAN :
       StreamSettles(opened)
         /\ UNCHANGED <<streamVars, sessionVars, filterVars, decoderVars,
                        eventVars, restVars>>

SpecRoute == InitRoute /\ [][NextRoute]_vars

\* The stream reader and the chat session side by side, with a transport
\* that settles every read and every request and a consumer that asks for
\* the next element whenever the generator waits at a yield.
MaxLiveSubmits == 1

MaxLiveFrames == 1

InitLive ==
  /\ InitStreamVars
  /\ Len(body.frames) <= MaxLiveFrames
  /\ InitSession(MaxLiveSubmits)
  /\ FilterIdle /\ DecoderIdle /\ EventIdle /\ RouteIdle /\ RestIdle

NextLive == NextStream \/ NextRace

ConsumerPulls == (GenStart \/ Pull) /\ UNCHANGED <<sessionVars, pureVars>>

ReadSettles ==
  (ReadThrows \/ ReadDone \/ ReadChunk) /\ UNCHANGED <<sessionVars, pureVars>>

SubmissionSettles(s) ==
  (FetchResponds(s) \/ FetchFails(s) \/ StreamDone(s) \/ StreamFails(s))
    /\ UNCHANGED <<streamVars, pureVars>>

SpecLive ==
  /\ InitLive
  /\ [][NextLive]_vars
  /\ WF_vars(ConsumerPulls)
  /\ WF_vars(ReadSettles)
  /\ \A s \in 1..MaxLiveSubmits : WF_vars(SubmissionSettles(s))

\* The chat endpoint writes the response stream and the stream reader of
\* the browser reads it.
InitWire ==
  /\ InitWireVars
  /\ StreamIdle
  /\ InitSession(MaxSubmits)
  /\ FilterIdle /\ DecoderIdle /\ EventIdle /\ RouteIdle
  /\ KindIdle /\ HistoryIdle /\ GraphIdle

ReaderVars ==
  <<sessionVars, filterVars, decoderVars, eventVars, routeVars,
    nodeMetadata, runIdSets, graphVars>>

NextWire ==
  \/ SseForward /\ UNCHANGED ReaderVars
  \/ SseEnds /\ UNCHANGED ReaderVars
  \/ SseFails /\ UNCHANGED ReaderVars
  \/ SseCancel /\ UNCHANGED ReaderVars
  \/ GenStart /\ UNCHANGED <<sessionVars, pureVars>>
  \/ ReadChunk /\ UNCHANGED <<sessionVars, pureVars>>
  \/ WireReadDone /\ UNCHANGED ReaderVars
  \/ ReadThrows /\ UNCHANGED <<sessionVars, pureVars>>
  \/ Pull /\ UNCHANGED <<sessionVars, pureVars>>
  \/ ConsumerReturn /\ UNCHANGED <<sessionVars, pureVars>>

SpecWire == InitWire /\ [][NextWire]_vars

(***************************************************************************)
(* Properties of the stream reader, under SpecStream.                      *)
(***************************************************************************)
\* the events that the bytes give when they arrive as one chunk

\* The three classifications of one event.
InitKind ==
  /\ InitKindVars
  /\ StreamIdle
  /\ InitSession(MaxSubmits)
  /\ FilterIdle /\ DecoderIdle /\ RouteIdle
  /\ WireIdle /\ HistoryIdle /\ GraphIdle

KindFrame ==
  <<streamVars, sessionVars, filterVars, decoderVars, routeVars, wireVars,
    runIdSets, graphVars>>

NextKind ==
  \/ ParseMessage /\ UNCHANGED <<KindFrame, nodeMetadata>>
  \/ ClassifyError /\ UNCHANGED <<KindFrame, nodeMetadata>>
  \/ ExtractNodes /\ UNCHANGED KindFrame

SpecKind == InitKind /\ [][NextKind]_vars

\* The chat session of a user who only submits and stops, with the count
\* of the events that set the run id.
InitRunId ==
  /\ InitSession(MaxRaceSubmits)
  /\ InitHistory
  /\ StreamIdle
  /\ FilterIdle /\ DecoderIdle /\ EventIdle /\ RouteIdle
  /\ WireIdle /\ KindIdle /\ GraphIdle

RunIdFrame ==
  <<streamVars, filterVars, decoderVars, eventVars, routeVars, wireVars,
    nodeMetadata, graphVars>>

NextRunId ==
  \/ initializeThread /\ UNCHANGED <<RunIdFrame, runIdSets>>
  \/ \E text \in SubmitTexts :
       Submit(text) /\ UNCHANGED <<RunIdFrame, runIdSets>>
  \/ \E s \in SubIds : FetchResponds(s) /\ UNCHANGED <<RunIdFrame, runIdSets>>
  \/ \E s \in SubIds : FetchFails(s) /\ UNCHANGED <<RunIdFrame, runIdSets>>
  \/ \E s \in SubIds, i \in 1..Len(SessionEvents) :
       StreamEvent(s, i) /\ CountsRunIdSet(s) /\ UNCHANGED RunIdFrame
  \/ \E s \in SubIds : StreamDone(s) /\ UNCHANGED <<RunIdFrame, runIdSets>>
  \/ \E s \in SubIds : StreamFails(s) /\ UNCHANGED <<RunIdFrame, runIdSets>>
  \/ stop /\ UNCHANGED <<RunIdFrame, runIdSets>>
  \/ StopSettles /\ UNCHANGED <<RunIdFrame, runIdSets>>

SpecRunId == InitRunId /\ [][NextRunId]_vars

\* The retrieval graph, with calls that settle.
InitGraph ==
  /\ InitGraphVars
  /\ StreamIdle
  /\ InitSession(MaxSubmits)
  /\ FilterIdle /\ DecoderIdle /\ EventIdle /\ RouteIdle
  /\ WireIdle /\ KindIdle /\ HistoryIdle

GraphFrame ==
  <<streamVars, sessionVars, filterVars, decoderVars, eventVars, routeVars,
    wireVars, nodeMetadata, runIdSets>>

NextGraph ==
  \/ \E outcome \in ClassifierOutcomes :
       checkQueryType(outcome) /\ UNCHANGED GraphFrame
  \/ RouteEdge /\ UNCHANGED GraphFrame
  \/ \E returns \in BOOLEAN :
       retrieveDocuments(returns) /\ UNCHANGED GraphFrame
  \/ \E returns \in BOOLEAN :
       generateResponse(returns) /\ UNCHANGED GraphFrame
  \/ \E returns \in BOOLEAN :
       answerQueryDirectly(returns) /\ UNCHANGED GraphFrame

SpecGraph == InitGraph /\ [][NextGraph]_vars /\ WF_vars(NextGraph)

OneChunkEvents(bytes) ==
  processSSEBuffer(TextDecode(FALSE, bytes).text).parsedEvents

\* C1: however the bytes read so far were cut into chunks, the events
\* yielded or waiting to be yielded are the events the same bytes give as
\* a single chunk, in the same order.
C1_ChunkingEquivalence ==
  yielded \o parsedQueue
    = OneChunkEvents(SubSeq(BodyBytes(body), 1, delivered))

\* an event was yielded and the last chunk ended between the two characters
\* of the delimiter of the next frame
C1_Witness ==
  /\ yielded = <<FrameKinds[1].value>>
  /\ buffer = FrameKinds[1].bytes \o <<"\n">>

\* C2: the reader is released once when the generator has ended after
\* taking it (end of stream, a read that throws, the consumer leaving
\* early), and not at all before that or when it was never taken.
C2_ReleasedExactlyOnce ==
  releaseCount = IF readerHeld /\ genPc \in {"returned", "threw"}
                 THEN 1 ELSE 0

\* the consumer left while events of the last chunk were still waiting
C2_Witness ==
  /\ exitPath = "abandoned"
  /\ parsedQueue # <<>>
  /\ releaseCount = 1

\* the frames of the body whose delimiter has been read
FramesRead ==
  LET ends == [k \in 0..Len(body.frames) |->
                 Len(FramesBytes(SubSeq(body.frames, 1, k)))]
      last == Last(0, Len(body.frames), LAMBDA k : ends[k] <= delivered)
  IN SubSeq(body.frames, 1, last)

\* the values of the frames that satisfy Kept, in the order of the frames
ValuesOf(frames, Kept(_)) ==
  LET kept == SelectSeq(frames, LAMBDA f : Kept(FrameKinds[f]))
  IN [i \in 1..Len(kept) |-> FrameKinds[kept[i]].value]

\* the generator throws only for a missing body or a failed read
NoParseError == genPc = "threw" => exitPath \in {"noReader", "readError"}

\* C6 as stated: no frame makes the generator throw, and the events yielded
\* or waiting are the values of all the well-formed frames read, in order.
C6_EveryWellFormedFrameYielded ==
  /\ NoParseError
  /\ yielded \o parsedQueue
       = ValuesOf(FramesRead, LAMBDA frame : frame.wellFormed)

\* C6, amended: no frame makes the generator throw, and the events yielded
\* or waiting are the values of the well-formed frames read whose JSON
\* document is not null, in order.
C6_WellFormedNonNullFramesYielded ==
  /\ NoParseError
  /\ yielded \o parsedQueue
       = ValuesOf(FramesRead,
                  LAMBDA frame : frame.wellFormed /\ frame.value # Null)

\* the stream ended after a frame with malformed JSON and then a
\* well-formed frame, and the consumer has the one event
C6_Witness ==
  /\ body.frames = <<4, 1>>
  /\ exitPath = "endOfStream"
  /\ yielded = <<FrameKinds[1].value>>

(***************************************************************************)
(* Properties of the filter, under SpecFilter.                             *)
(***************************************************************************)
\* a route line: route, a separator, direct or retrieve, perhaps a period,
\* with white space after the separator and, when spaceBefore, before it
RouteLineShape(text, spaceBefore) ==
  LET low == toLowerCase(text)
      ends == {S_direct, S_retrieve,
               S_direct \o <<".">>, S_retrieve \o <<".">>}
  IN /\ startsWith(low, S_route)
     /\ \E i \in (Len(S_route) + 1)..Len(low) :
          /\ low[i] \in {":", "="}
          /\ spaceBefore \/ i = Len(S_route) + 1
          /\ \A k \in (Len(S_route) + 1)..(i - 1) : low[k] \in WhiteSpace
          /\ \E j \in (i + 1)..Len(low) :
               /\ \A k \in (i + 1)..(j - 1) : low[k] \in WhiteSpace
               /\ SliceFrom(low, j) \in ends

\* a JSON object with route direct or retrieve and no key but route,
\* reason and explanation
RouteObjectShape(text) ==
  LET parsed == JSONparse(text)
  IN /\ parsed.ok
     /\ parsed.v.t = "object"
     /\ HasKey(parsed.v, S_route)
     /\ Get(parsed.v, S_route) \in {JStr(S_direct), JStr(S_retrieve)}
     /\ {parsed.v.k[i] : i \in 1..Len(parsed.v.k)}
          \subseteq {S_route, S_reason, S_explanation}

\* what a fenced code block holds: the text between the fences, without an
\* opening json tag
FencedTexts(text) ==
  LET n == Len(text)
      f == Len(S_fence)
  IN IF n >= 2 * f /\ SubSeq(text, 1, f) = S_fence
        /\ SubSeq(text, n - f + 1, n) = S_fence
     THEN {trim(SubSeq(text, f + 1 + tag, n - f)) :
             tag \in {t \in {0, Len(S_json)} :
                        /\ n >= 2 * f + t
                        /\ toLowerCase(SubSeq(text, f + 1, f + t))
                             = SubSeq(S_json, 1, t)}}
     ELSE {}

RouteDecisionShape(text, spaceBefore) ==
  LET trimmed == trim(text)
  IN \/ toLowerCase(trimmed) \in {S_direct, S_retrieve}
     \/ RouteLineShape(trimmed, spaceBefore)
     \/ \E candidate \in {trimmed} \cup FencedTexts(trimmed) :
          RouteObjectShape(candidate)

\* C5 as stated: a text is classified as internal exactly when it has one
\* of the three shapes, the separator of a route line following the word
\* route at once, and its trimmed length is at most 240.
C5_InternalIffShapeAndShort ==
  routeVerdict # "none" =>
    (routeVerdict = "internal"
       <=> (/\ RouteDecisionShape(routeText, FALSE)
            /\ Len(trim(routeText)) <= 240))

\* C5, amended: a text is classified as internal exactly when it has one of
\* the three shapes, white space being allowed on both sides of the
\* separator of a route line, and its trimmed length is at most 240.
C5_InternalIffLooseShapeAndShort ==
  routeVerdict # "none" =>
    (routeVerdict = "internal"
       <=> (/\ RouteDecisionShape(routeText, TRUE)
            /\ Len(trim(routeText)) <= 240))

\* a padded route object of trimmed length 240 was classified as internal
C5_Witness ==
  /\ routeVerdict = "internal"
  /\ trim(routeText) = LongJson(240)
  /\ Len(routeText) > 240

(***************************************************************************)
(* Properties of the chat session, under Spec and SpecRace.                *)
(***************************************************************************)
Streaming == {s \in SubIds : subs[s] = "stream"}

\* the last step processed a stream event of the given kind
EventStep(kind) ==
  /\ effects.op = "event"
  /\ effects.event = kind

LastMessageIs(role, content) ==
  /\ messages # <<>>
  /\ messages[Len(messages)] = Message(role, content)

\* C3: at most one submission is in flight: at most one response stream is
\* being consumed.
C3_AtMostOneInFlight == Cardinality(Streaming) <= 1

\* C4: no assistant message has the text of a route decision as its
\* content, and a message chunk whose text is a route decision leaves the
\* message list unchanged.
C4_RouteDecisionsNeverShown ==
  [][/\ \A k \in 1..Len(messages') :
          messages'[k].role = "assistant"
            => ~RouteDecisionShape(messages'[k].content, TRUE)
     /\ EventStep("route")' => messages' = messages]_vars

\* a route line arrived after content had been streamed
C4_Witness ==
  /\ EventStep("route")
  /\ LastMessageIs("assistant", T_answer)

\* C7: a submit call made while a submission is in flight, while the
\* session is not connected or has no thread, or with blank text, changes
\* neither the message list, the run id, the abort handle nor the
\* submitting flag, and sends no request.
C7_RejectedSubmitHasNoEffect ==
  [][\A text \in SubmitTexts :
       (/\ Submit(text)
        /\ \/ InFlight # {}
           \/ connectionStatus # "connected"
           \/ threadId = 0
           \/ trim(text) = <<>>)
         => /\ messages' = messages
            /\ currentRunIdRef' = currentRunIdRef
            /\ chatAbortRef' = chatAbortRef
            /\ isLoading' = isLoading
            /\ effects'.request = NoRequest]_vars

\* C8: when a call of stop() completes, at once or when the remote
\* cancellation has settled, the session is not submitting, the run id is
\* cleared and the abort handle is cleared.
C8_StopLeavesSessionIdle ==
  [][effects'.op = "stop"
       => /\ ~isLoading'
          /\ currentRunIdRef' = Null
          /\ chatAbortRef' = 0]_vars

\* C9: once stop() has been called while a submission was in flight, no
\* event of the stream of that submission changes the message list or the
\* run id.
C9_NoEventAfterStop ==
  [][\A s \in stopInvokedOn, i \in 1..Len(SessionEvents) :
       StreamEvent(s, i)
         => /\ messages' = messages
            /\ currentRunIdRef' = currentRunIdRef]_vars

\* C10: an interrupted-error event raises no toast and leaves the message
\* list unchanged.
C10_InterruptIsSilent ==
  [][EventStep("interrupt")'
       => /\ effects'.toasts = <<>>
          /\ messages' = messages]_vars

\* an interrupted-error event arrived after content had been streamed and
\* before any run id was tracked
C10_Witness ==
  /\ EventStep("interrupt")
  /\ currentRunIdRef = Null
  /\ LastMessageIs("assistant", T_answer)

\* the texts of the toasts of a step
ToastTexts(toasts) == {toasts[k].text : k \in 1..Len(toasts)}

\* the trailing message is an assistant message with streamed content
PartialContent ==
  /\ messages # <<>>
  /\ messages[Len(messages)].role = "assistant"
  /\ trim(messages[Len(messages)].content) # <<>>

\* C11: a genuine error event that arrives after content has streamed
\* leaves the message list unchanged and raises no toast with its text; one
\* that arrives before any content puts its text in the trailing message
\* and raises a toast with its text.
C11_ErrorAfterContentIsSilent ==
  [][EventStep("error")'
       => IF PartialContent
          THEN /\ messages' = messages
               /\ T_boom \notin ToastTexts(effects'.toasts)
          ELSE /\ LastMessageIs("assistant", T_boom)'
               /\ T_boom \in ToastTexts(effects'.toasts)]_vars

\* a request that fails, a response without a body, a read that fails
TransportFailure(s) ==
  \/ FetchFails(s)
  \/ StreamFails(s)
  \/ FetchResponds(s) /\ subs'[s] = "ended"

\* C12: a transport error that ends a submission keeps streamed content
\* and raises no toast; when nothing has streamed it puts the generic
\* processing-error string in the trailing assistant message and raises a
\* toast.
C12_TransportErrorFinalizes ==
  [][\A s \in SubIds :
       TransportFailure(s)
         => IF PartialContent
            THEN /\ messages' = messages
                 /\ effects'.toasts = <<>>
            ELSE /\ LastMessageIs("assistant", PROCESSING_ERROR)'
                 /\ Len(messages') = Len(messages)
                 /\ effects'.toasts # <<>>]_vars

\* C13: a message chunk sets the content of the trailing assistant message
\* to the content of the chunk and changes nothing else of the message
\* list.
C13_ChunkReplacesPlaceholder ==
  [][EventStep("content")'
       => /\ messages # <<>>
          /\ messages[Len(messages)].role = "assistant"
          /\ messages' =
               [messages EXCEPT ![Len(messages)].content = T_answer]]_vars

\* C14: an accepted submit appends a user message with the trimmed text and
\* an empty assistant message, clears the run id, sets the submitting flag
\* and installs the abort handle of a submission that is new and awaits its
\* response.
C14_AcceptedSubmitAppendsTwo ==
  [][\A text \in SubmitTexts :
       (Submit(text) /\ effects'.op = "submit")
         => /\ messages' = messages \o <<Message("user", trim(text)),
                                         Message("assistant", <<>>)>>
            /\ currentRunIdRef' = Null
            /\ isLoading'
            /\ chatAbortRef' \in SubIds
            /\ subs[chatAbortRef'] = "none"
            /\ subs'[chatAbortRef'] = "fetch"]_vars

\* a submit was accepted on a list that held an answered exchange
C14_Witness ==
  /\ effects.op = "submit"
  /\ Len(messages) = 4
  /\ messages[2] = Message("assistant", T_answer)
  /\ messages[3] = Message("user", <<"h", "i">>)
  /\ messages[4] = Message("assistant", <<>>)
  /\ isLoading

\* the submissions that have completed, failed or been aborted, and those
\* that were in flight when stop() was called
Finished == {s \in SubIds : subs[s] = "ended"} \cup stopInvokedOn

\* the operations that start a submission or replace the conversation
ListOperations ==
  {"submit", "retry", "edit", "newChat", "newChatStopped", "loadSession"}

\* C15: no stream event of a submission that has completed, failed or been
\* stopped changes the message list, and while no submission is in flight
\* the message list changes only by submit, retry, edit-and-resubmit,
\* newChat or loadSession.
C15_FinishedSubmissionIsFinal ==
  [][/\ \A s \in Finished, i \in 1..Len(SessionEvents) :
          StreamEvent(s, i) => messages' = messages
     /\ (InFlight = {} /\ messages' # messages)
          => effects'.op \in ListOperations]_vars

\* the run id is empty when no submission is in flight
RunIdOnlyInFlight == InFlight = {} => currentRunIdRef = Null

\* C16: the run id is empty whenever no submission is in flight; it is set
\* only by a run-id event of a submission in flight and cleared when a
\* submission leaves flight; a cancellation is requested only while a
\* submission is in flight, for the thread of the session and with the run
\* id that is tracked then.
C16_RunIdLifecycle ==
  [][/\ RunIdOnlyInFlight
     /\ RunIdOnlyInFlight'
     /\ (currentRunIdRef' # currentRunIdRef /\ currentRunIdRef' # Null)
          => /\ EventStep("run")'
             /\ Streaming # {}
             /\ currentRunIdRef' \in {JStr(T_r1), JStr(T_r2)}
     /\ (\E s \in InFlight : subs'[s] = "ended")
          => currentRunIdRef' = Null
     /\ effects'.cancel # NoCancel
          => /\ InFlight # {}
             /\ currentRunIdRef # Null
             /\ effects'.cancel = [thread |-> threadId,
                                   run |-> currentRunIdRef.s]]_vars

\* stop() asked for the cancellation of the run of the submission it ended
C16_Witness ==
  /\ effects.op = "stopAwaits"
  /\ effects.cancel.run = T_r1
  /\ InFlight = {}
  /\ currentRunIdRef = Null

\* a submission is in flight, the session is not connected or has no thread
NotReady ==
  \/ InFlight # {}
  \/ connectionStatus # "connected"
  \/ threadId = 0

\* the list and the request that resubmitting text at index does leave:
\* the messages before index, a user message with text and a placeholder,
\* the messages before index being sent as context
Resubmitted(index, text) ==
  /\ messages' = SubSeq(messages, 1, index - 1)
                   \o <<Message("user", text), Message("assistant", <<>>)>>
  /\ effects'.request = [thread |-> threadId, message |-> text,
                         before |-> Before(SubSeq(messages, 1, index - 1))]

\* C17: an accepted edit-and-resubmit at the index of a user message leaves
\* the messages before it, a user message with the new text and an empty
\* placeholder, and sends the messages before it as context; an accepted
\* retry does so at the last user message with its text.  Either leaves the
\* message list alone when a submission is in flight, the session is not
\* connected, the text is blank or, for edit, the index is not that of a
\* user message.  Indices count from 1 here.
C17_EditAndRetryTruncate ==
  [][/\ \A index \in 1..(Len(messages) + 1), text \in SubmitTexts :
          editAndResubmitMessage(index, text)
            => IF \/ NotReady
                  \/ trim(text) = <<>>
                  \/ index > Len(messages)
                  \/ messages[index].role # "user"
               THEN messages' = messages
               ELSE Resubmitted(index, trim(text))
     /\ retryLastMessage
          => LET users == {k \in 1..Len(messages) :
                             messages[k].role = "user"}
             IN IF NotReady \/ users = {}
                THEN messages' = messages
                ELSE \E index \in users :
                       /\ \A k \in users : k <= index
                       /\ IF trim(messages[index].content) = <<>>
                          THEN messages' = messages
                          ELSE Resubmitted(index,
                                           messages[index].content)]_vars

\* what stop() may not touch when it has nothing to stop
StopLeavesAlone ==
  /\ messages' = messages
  /\ connectionStatus' = connectionStatus
  /\ threadId' = threadId
  /\ currentRunIdRef' = currentRunIdRef
  /\ isLoading' = isLoading
  /\ effects'.cancel = NoCancel

\* C18: stop() called while no submission is in flight changes neither the
\* messages, the connection status, the thread id, the run id nor the
\* submitting flag and requests no cancellation; so does stop() called
\* straight after stop().
C18_StopWhenIdleIsNoOp ==
  [][stop => /\ InFlight = {} => StopLeavesAlone
             /\ effects.op \in {"stop", "stopAwaits"} => StopLeavesAlone]_vars

(***************************************************************************)
(* Properties of the frame decoder, under SpecBuffer.                      *)
(***************************************************************************)
\* the delimiter occurs in s at position j
OccursAt(s, j) ==
  /\ j + Len(EVENT_DELIMITER) - 1 <= Len(s)
  /\ SubSeq(s, j, j + Len(EVENT_DELIMITER) - 1) = EVENT_DELIMITER

HasDelimiter(s) == \E j \in 1..Len(s) : OccursAt(s, j)

EndsOnDelimiter(s) ==
  /\ Len(s) >= Len(EVENT_DELIMITER)
  /\ OccursAt(s, Len(s) - Len(EVENT_DELIMITER) + 1)

RECURSIVE JoinedByDelimiter(_)
JoinedByDelimiter(pieces) ==
  IF Len(pieces) = 1
  THEN pieces[1]
  ELSE pieces[1] \o EVENT_DELIMITER \o JoinedByDelimiter(Tail(pieces))

\* pieces cut the buffer at its delimiters, taken from the left without
\* overlap: a delimiter follows each piece but the last, none starts inside
\* a piece followed by its delimiter, and none is left in the last piece
CutsLeftToRight(pieces) ==
  /\ Len(pieces) >= 1
  /\ JoinedByDelimiter(pieces) = bufferString
  /\ \A k \in 1..(Len(pieces) - 1) :
       \A j \in 1..Len(pieces[k]) :
         ~OccursAt(pieces[k] \o EVENT_DELIMITER, j)
  /\ \A j \in 1..Len(pieces[Len(pieces)]) :
       ~OccursAt(pieces[Len(pieces)], j)
  /\ decodedBuffer.remainingBuffer = pieces[Len(pieces)]
  /\ decodedBuffer.parsedEvents =
       SelectSeq([k \in 1..(Len(pieces) - 1) |-> parseSSELine(pieces[k])],
                 LAMBDA event : event # Null)

\* C19: for every buffer string the frame decoder cuts the buffer at the
\* occurrences of the delimiter, scanning from the left without overlap,
\* hands every segment that precedes a delimiter to the line parser in
\* order (keeping the results that are not null), and returns the segment
\* after the last delimiter as the remainder; the remainder never contains
\* the delimiter, an empty buffer gives no frames and an empty remainder,
\* and a buffer without delimiter is its own remainder.  The delimiters
\* are the occurrences found from the left: a buffer that ends with the
\* characters of the delimiter leaves an empty remainder or, when a line
\* feed before them already closed a delimiter, a single line feed.
C19_DecoderCutsAtDelimiters ==
  decodedBuffer.done =>
    /\ \E pieces \in {split(bufferString, EVENT_DELIMITER)} :
         CutsLeftToRight(pieces)
    /\ \A j \in 1..Len(decodedBuffer.remainingBuffer) :
         ~OccursAt(decodedBuffer.remainingBuffer, j)
    /\ bufferString = <<>> =>
         /\ decodedBuffer.parsedEvents = <<>>
         /\ decodedBuffer.remainingBuffer = <<>>
    /\ ~HasDelimiter(bufferString) =>
         /\ decodedBuffer.parsedEvents = <<>>
         /\ decodedBuffer.remainingBuffer = bufferString
    /\ EndsOnDelimiter(bufferString) =>
         decodedBuffer.remainingBuffer \in {<<>>, <<"\n">>}
    /\ decodedBuffer.remainingBuffer = <<>> /\ bufferString # <<>> =>
         EndsOnDelimiter(bufferString)

\* C19 as stated: the remainder is empty whenever the buffer ends on a
\* delimiter (and is the whole buffer when the buffer has no delimiter, never
\* contains the delimiter, and is empty with no frames for an empty buffer).
C19_RemainderEmptyAfterDelimiter ==
  decodedBuffer.done =>
    /\ ~HasDelimiter(decodedBuffer.remainingBuffer)
    /\ bufferString = <<>> =>
         /\ decodedBuffer.parsedEvents = <<>>
         /\ decodedBuffer.remainingBuffer = <<>>
    /\ ~HasDelimiter(bufferString) =>
         decodedBuffer.remainingBuffer = bufferString
    /\ EndsOnDelimiter(bufferString) => decodedBuffer.remainingBuffer = <<>>

\* a frame followed by three line feeds has been decoded: the first two
\* are the delimiter, the third is the remainder
C19_Witness ==
  /\ decodedBuffer.done
  /\ bufferString = <<"d", "a", "t", "a", ":", "1", "\n", "\n", "\n">>
  /\ Len(decodedBuffer.parsedEvents) = 1
  /\ decodedBuffer.remainingBuffer = <<"\n">>

(***************************************************************************)
(* Properties of the chunk extractor, under SpecChunk.                     *)
(***************************************************************************)
\* C20: parseSSEMessageChunk returns null for every message event whose
\* last message's text, after trimming, starts with an opening brace,
\* whether or not the text is a route decision.
C20_JsonLookingTextIsRejected ==
  extractedChunk.done /\ startsWith(trim(chunkText), <<"{">>) =>
    extractedChunk.chunk = Null

(***************************************************************************)
(* Properties of the event classifier, under SpecEvent.                    *)
(***************************************************************************)
\* the message list an event carries, directly or under "messages"
MessageListOf(event) ==
  IF IsArray(Get(event, S_data))
  THEN Get(event, S_data).a
  ELSE Get(Get(event, S_data), S_messages).a

LastOf(event) == MessageListOf(event)[Len(MessageListOf(event))]

\* the text of a content: the string, or the texts of the parts in order
TextOf(content) ==
  IF IsString(content) THEN content.s
  ELSE joinEmpty([i \in 1..Len(content.a) |-> ContentPartText(content.a[i])])

ChunkReturned == parsedChunk.done /\ parsedChunk.chunk # Null

\* C21: whenever parseSSEMessageChunk returns a chunk, its content is the
\* trimmed text of the last message, for a string content and for a list of
\* content parts, and its messageId is the last message's id when that id
\* is a string and absent otherwise.
C21_ChunkContentIsTrimmed ==
  ChunkReturned =>
    /\ parsedChunk.chunk.content =
         trim(TextOf(Get(LastOf(eventChunk), S_content)))
    /\ parsedChunk.chunk.messageId =
         IF IsString(Get(LastOf(eventChunk), S_id))
         THEN Get(LastOf(eventChunk), S_id)
         ELSE Undefined

\* the event carries a message list, directly or under "messages"
HasList(event) ==
  \/ IsArray(Get(event, S_data))
  \/ /\ IsObjectLike(Get(event, S_data))
     /\ IsArray(Get(Get(event, S_data), S_messages))

HasMessagePrefix(event) ==
  /\ IsString(Get(event, S_event))
  /\ startsWith(Get(event, S_event).s, MESSAGE_EVENT_PREFIX)

\* the event with the same discriminator whose list is the last message alone
OnlyLast(event) == Event(Get(event, S_event), JArr(<<LastOf(event)>>))

\* the event whose last message alone is the list, said to be of type ai
OnlyLastAsAi(event) ==
  Event(Get(event, S_event),
        JArr(<<SetKey(LastOf(event), S_type, JStr(T_ai))>>))

MessageIsInterrupt(event) ==
  /\ IsObjectLike(Get(event, S_data))
  /\ Get(Get(event, S_data), S_message) = JStr(S_interrupt)

\* C23: isSSEErrorEvent holds exactly when the discriminator equals error,
\* and isSSEInterruptedErrorEvent holds exactly when isSSEErrorEvent holds
\* and the payload's message field equals interrupt; so every interrupted
\* error is an error event, and an error event with another message, with
\* a string payload or without message is not interrupted.
C23_InterruptedIffErrorAndInterrupt ==
  errorClass.done =>
    /\ errorClass.isError <=> Get(eventChunk, S_event) = JStr(ERROR_EVENT)
    /\ errorClass.isInterrupted <=>
         errorClass.isError /\ MessageIsInterrupt(eventChunk)
    /\ errorClass.isInterrupted => errorClass.isError
    /\ IsString(Get(eventChunk, S_data)) => ~errorClass.isInterrupted
    /\ ~HasKey(Get(eventChunk, S_data), S_message) =>
         ~errorClass.isInterrupted

\* an error event whose message is interrupt, with an error field besides,
\* has been classified as interrupted
C23_Witness ==
  /\ errorClass.done
  /\ errorClass.isInterrupted
  /\ HasKey(Get(eventChunk, S_data), S_error)

\* the first of the payload, its message field and its error field that is
\* a string, or null
FirstStringOf(eventData) ==
  IF IsString(eventData) THEN eventData
  ELSE IF IsString(Get(eventData, S_message))
  THEN Get(eventData, S_message)
  ELSE IF IsString(Get(eventData, S_error)) THEN Get(eventData, S_error)
  ELSE Null

\* C24: extractSSEErrorMessage returns null for every event that is no
\* error event; for an error event it returns the payload when the payload
\* is a string, otherwise the payload's message field when that is a
\* string, otherwise its error field when that is a string, otherwise null.
C24_ErrorMessagePreference ==
  errorClass.done =>
    errorClass.message =
      IF Get(eventChunk, S_event) = JStr(ERROR_EVENT)
      THEN FirstStringOf(Get(eventChunk, S_data))
      ELSE Null

\* the error field has been returned for an error event whose message field
\* is no string
C24_Witness ==
  /\ errorClass.done
  /\ HasKey(Get(eventChunk, S_data), S_message)
  /\ ~IsString(Get(Get(eventChunk, S_data), S_message))
  /\ errorClass.message = JStr(<<"e">>)

(***************************************************************************)
(* Properties of the content extractor, under SpecContent.                 *)
(***************************************************************************)
\* what a part of a content list contributes
Contribution(part) ==
  IF IsString(part) THEN part.s
  ELSE IF IsString(Get(part, S_text)) THEN Get(part, S_text).s
  ELSE <<>>

RECURSIVE Contributions(_)
Contributions(parts) ==
  IF parts = <<>> THEN <<>>
  ELSE Contribution(Head(parts)) \o Contributions(Tail(parts))

StringOrNull(text) == IF text = <<>> THEN Null ELSE JStr(text)

\* C25: extractMessageContent returns a string or null for every shape of
\* content: a string is returned unchanged; a list returns the trimmed
\* concatenation, in order, of what its parts contribute (a string part
\* itself, a part with a string text that text, any other part nothing), or
\* null when that is empty; any other shape returns null.
C25_ContentIsStringOrNull ==
  extractedContent.done =>
    /\ extractedContent.result.t \in {"string", "null"}
    /\ extractedContent.result =
         IF IsString(messageContent) THEN messageContent
         ELSE IF IsArray(messageContent)
         THEN StringOrNull(trim(Contributions(messageContent.a)))
         ELSE Null

\* a list of a string and a part with a text has been extracted, and the
\* white space at its start is gone
C25_Witness ==
  /\ extractedContent.done
  /\ messageContent =
       JArr(<<JStr(<<" ", "a">>), JObj(<<S_text>>, <<JStr(<<"c">>)>>)>>)
  /\ extractedContent.result = JStr(<<"a", "c">>)

(***************************************************************************)
(* Properties of the chat endpoint, under SpecRoute.                       *)
(***************************************************************************)
\* a field is missing, no string, blank after trimming or, trimmed, longer
\* than its limit
BadField(value, limit) ==
  \/ ~IsString(value)
  \/ /\ IsString(value)
     /\ \/ trim(value.s) = <<>>
        \/ Len(trim(value.s)) > limit

\* a message of a well-formed history: a role of user or assistant and a
\* content that is a string
WellFormedMessage(item) ==
  /\ item.t = "object"
  /\ Get(item, S_role) \in {JStr(S_user), JStr(S_assistant)}
  /\ IsString(Get(item, S_content))

MalformedHistory(history) ==
  /\ history # Undefined
  /\ \/ ~IsArray(history)
     \/ /\ IsArray(history)
        /\ \E i \in 1..Len(history.a) : ~WellFormedMessage(history.a[i])

\* the body was parsed and the endpoint is bound to reject it
InvalidRequest ==
  /\ requestBody # Unparsable
  /\ \/ BadField(Get(requestBody, S_message), MAX_MESSAGE_LENGTH)
     \/ BadField(Get(requestBody, S_threadId), MAX_THREAD_ID_LENGTH)
     \/ MalformedHistory(Get(requestBody, S_messagesBeforeEdit))

\* C26: the chat endpoint rejects every request whose message or threadId
\* is missing, no string, blank after trimming or longer than its limit,
\* or whose messagesBeforeEdit is no well-formed message list: its response
\* has a status from 400 to 499 and the JSON body {error}, and it neither
\* updates the state of the thread nor opens the upstream event stream.
C26_InvalidRequestIsRejected ==
  InvalidRequest =>
    /\ upstream.updateState = 0
    /\ upstream.stream = 0
    /\ routePc = "responded" =>
         /\ routeResponse.status \in 400..499
         /\ routeResponse.body = "error"

(***************************************************************************)
(* Termination, under SpecLive.                                            *)
(***************************************************************************)
Terminated == genPc \in {"returned", "threw"}

SessionCleared ==
  /\ ~isLoading
  /\ currentRunIdRef = Null
  /\ chatAbortRef = 0

\* C27: when the transport settles every read (with bytes, the end of the
\* stream, an error or an abort) and the consumer keeps asking for the next
\* element, readSSEStream terminates; and every accepted submission
\* eventually ends, the session no longer loading and the run id and the
\* abort controller cleared.
C27_StreamAndSubmissionsTerminate ==
  /\ <>Terminated
  /\ \A s \in 1..MaxLiveSubmits :
       (subs[s] \in {"fetch", "stream"})
         ~> (subs[s] = "ended" /\ SessionCleared)

\* the reader has ended on a read error after it yielded an event, and a
\* submission has ended with the session cleared
C27_Witness ==
  /\ exitPath = "readError"
  /\ yielded # <<>>
  /\ subs[1] = "ended"
  /\ SessionCleared

\* the generator of a response without body has done nothing but throw
NothingRead ==
  /\ genPc \in {"created", "threw"}
  /\ genPc = "threw" => exitPath = "noReader"
  /\ ~readerHeld
  /\ delivered = 0
  /\ yielded = <<>>
  /\ releaseCount = 0

\* the step of a submission whose response has no body
NoBodyStep(s) == FetchResponds(s) /\ subs'[s] = "ended"

\* C28: when the response has no body, readSSEStream throws the no-reader
\* error at the first next(), reads nothing, yields nothing and does not
\* call releaseLock; the submission fails with that error, it ends and the
\* session leaves the loading state.
C28_NoBodyFailsFast ==
  /\ [](~hasBody => NothingRead)
  /\ [][/\ ~hasBody /\ GenStart => genPc' = "threw"
        /\ \A s \in SubIds :
             NoBodyStep(s) =>
               /\ ~isLoading'
               /\ chatAbortRef' = 0
               /\ NO_STREAM_READER \in ToastTexts(effects'.toasts)
       ]_vars

\* the generator has thrown for want of a body, and a submission has ended
\* on the no-reader error
C28_Witness ==
  /\ exitPath = "noReader"
  /\ subs[1] = "ended"
  /\ LastMessageIs("assistant", NO_STREAM_READER)

(***************************************************************************)
(* Properties of the buffer of the stream reader, under SpecStream.        *)
(***************************************************************************)
\* the text of the bytes read so far
ReceivedText == TextDecode(FALSE, SubSeq(BodyBytes(body), 1, delivered)).text

\* the text of the bytes read so far that follow the last frame whose
\* delimiter has been read
UnresolvedText ==
  TextDecode(FALSE, SubSeq(BodyBytes(body),
                           Len(FramesBytes(FramesRead)) + 1,
                           delivered)).text

FrameText(f) == TextDecode(FALSE, FrameKinds[f].bytes).text

\* pieces are the text received, cut at its delimiters: the frames read, in
\* order, then the buffer; and the events yielded or waiting are what the
\* line parser makes of those frames
AccountsForReceived(pieces) ==
  /\ JoinedByDelimiter(pieces) = ReceivedText
  /\ pieces[Len(pieces)] = buffer
  /\ Len(pieces) = Len(FramesRead) + 1
  /\ \A k \in 1..Len(FramesRead) : pieces[k] = FrameText(FramesRead[k])
  /\ yielded \o parsedQueue =
       SelectSeq([k \in 1..(Len(pieces) - 1) |-> parseSSELine(pieces[k])],
                 LAMBDA event : event # Null)

\* C29: after every step of readSSEStream the buffer is exactly the text
\* received so far that follows the last delimiter, it holds no delimiter,
\* and the text received is the frames handed to the line parser, each
\* with its delimiter, followed by the buffer: nothing is lost and nothing
\* is there twice.
C29_BufferIsUnresolvedText ==
  /\ buffer = UnresolvedText
  /\ ~HasDelimiter(buffer)
  /\ \E pieces \in {split(ReceivedText, EVENT_DELIMITER)} :
       AccountsForReceived(pieces)

\* two frames have been handed on and the buffer holds the start of a
\* third, cut in the middle
C29_Witness ==
  /\ Len(FramesRead) = 2
  /\ buffer = <<"d", "a", "t", "a", ":">>
  /\ genPc = "awaitRead"

\* reader.read() has been called and has not settled: the generator waits
\* at its only await
ReadOutstanding == genPc = "awaitRead"

\* the step is a call of next() by the consumer
ConsumerRequests == GenStart \/ Pull

\* C30: readSSEStream is driven by the consumer and passes over the source
\* once.  While a read is outstanding every event decoded from the chunks
\* read before has been yielded; a read is issued from a position where
\* none is outstanding only by a request of the consumer; bytes are taken
\* from the source only by the one outstanding read, in order and once; and
\* an element is handed over one at a time, the generator then waiting at
\* the yield for the next request.
C30_PullDrivenSinglePass ==
  /\ [](ReadOutstanding =>
          /\ parsedQueue = <<>>
          /\ yielded = OneChunkEvents(SubSeq(BodyBytes(body), 1, delivered)))
  /\ [][/\ ReadOutstanding' /\ ~ReadOutstanding => ConsumerRequests
        /\ delivered' # delivered =>
             /\ ReadOutstanding
             /\ delivered' > delivered
        /\ yielded' # yielded =>
             /\ Len(yielded') = Len(yielded) + 1
             /\ SubSeq(yielded', 1, Len(yielded)) = yielded
             /\ genPc' = "atYield"
       ]_vars

\* a read is outstanding after the consumer has taken both events of one
\* chunk
C30_Witness ==
  /\ ReadOutstanding
  /\ Len(yielded) = 2
  /\ delivered = Len(FramesBytes(body.frames))
  /\ body.tail # <<>>

(***************************************************************************)
(* useChat: teardown of an earlier submission, newChat and loadSession     *)
(* against what happens in the meantime.                                   *)
(***************************************************************************)
\* the step ends a submission other than s: its catch and finally blocks
EndsAnother(s) ==
  \E e \in SubIds : e # s /\ Live(e) /\ subs'[e] = "ended"

\* the step is the rest of a stop() that was called before s was accepted
StopResumesAfter(s) ==
  /\ pendingStops' < pendingStops
  /\ s \notin stopInvokedOn

\* C31: the finally block of an earlier submission, or the rest of a stop()
\* that awaited its cancellation call, never clears the abort handle, the
\* run id or the submitting flag of a later submission that is in flight.
C31_TeardownSparesLaterSubmission ==
  [][\A s \in SubIds :
       (/\ Live(s)
        /\ chatAbortRef = s
        /\ isLoading
        /\ subs'[s] = subs[s]
        /\ EndsAnother(s) \/ StopResumesAfter(s))
       => /\ chatAbortRef' = s
          /\ isLoading'
          /\ currentRunIdRef' = currentRunIdRef]_vars

\* newChat() has just reached its await of client.threads.create: the thread
\* id the session holds is still the one of the conversation it leaves
NewChatAwaitsThread ==
  /\ effects.op \in {"newChat", "newChatStopped"}
  /\ newChats.creating > 0

SendsTo(thread) ==
  /\ effects'.op \in {"submit", "retry", "edit"}
  /\ effects'.request.thread = thread

\* C32: a submission issued while newChat() awaits the creation of the new
\* thread is not sent with the thread id of the conversation that newChat()
\* is leaving.
C32_NoSubmitToPreviousThread ==
  [][NewChatAwaitsThread => ~SendsTo(threadId)]_vars

\* the steps in which a thread creation or a stop() that was awaited by
\* initializeThread or by newChat() settles
CreationSettles ==
  effects'.op \in {"threadCreated", "threadFailed", "newChatStopped",
                   "newChatCreated", "newChatFailed"}

\* C33: when the thread creation started on mount, or a newChat() that was
\* in progress, completes right after loadSession(t, m), the session keeps
\* the thread id t and the messages m.
C33_LoadedSessionIsKept ==
  [][(effects.op = "loadSession" /\ CreationSettles)
       => /\ threadId' = threadId
          /\ messages' = messages]_vars

(***************************************************************************)
(* The wire between the chat endpoint and the stream reader.               *)
(***************************************************************************)
\* the events of the frames the endpoint has written: the chunks it took
\* from the iterator, then the error event when it has reported a failure
FramesWritten ==
  SubSeq(eventStream.chunks, 1, sseNext)

EventsWritten ==
  IF eventStream.fails /\ ssePc = "finished" /\ sseState = "closed"
  THEN Append(FramesWritten, StreamErrorEvent(T_boom))
  ELSE FramesWritten

IsPrefixOf(a, b) == Len(a) <= Len(b) /\ SubSeq(b, 1, Len(a)) = a

NotNull(event) == event # Null

\* the stream reader has read the whole response and seen its end
WholeResponseRead == exitPath = "endOfStream"

NoDelimiterInJson ==
  \A event \in WireEvents \cup {StreamErrorEvent(T_boom)} :
    ~HasDelimiter(SerializeValue(event))

\* C34 as stated: the frames written for any sequence of JSON-serializable
\* events are decoded, under any chunking, into exactly that sequence with
\* an empty remainder, and no JSON text holds the delimiter.
C34_WireRoundTrip ==
  /\ NoDelimiterInJson
  /\ IsPrefixOf(yielded \o parsedQueue, EventsWritten)
  /\ WholeResponseRead => (yielded = EventsWritten /\ buffer = <<>>)

\* C34, amended: the events other than null are decoded, in order and
\* under any chunking, with an empty remainder; the frame of the event null
\* is dropped by the reader; no JSON text holds the delimiter.
C34_WireRoundTripButNull ==
  /\ NoDelimiterInJson
  /\ IsPrefixOf(yielded \o parsedQueue, SelectSeq(EventsWritten, NotNull))
  /\ WholeResponseRead
       => (yielded = SelectSeq(EventsWritten, NotNull) /\ buffer = <<>>)

\* a response of two frames, one of them for a string that holds the
\* delimiter, read in more chunks than it has frames, up to its end
C34_Witness ==
  /\ WholeResponseRead
  /\ Len(eventStream.chunks) = 2
  /\ JStr(EVENT_DELIMITER) \in {eventStream.chunks[1], eventStream.chunks[2]}
  /\ Null \notin {eventStream.chunks[1], eventStream.chunks[2]}
  /\ Len(yielded) = 2

\* the bytes of the frames of a sequence of events
WireBytes(events) ==
  TextEncode(joinEmpty([i \in 1..Len(events) |-> formatSSEData(events[i])]))

ClosedOnce ==
  /\ closeCalls <= 1
  /\ ssePc = "finished" => closeCalls = 1
  /\ sseState = "closed" => closeCalls = 1

\* what the controller has accepted is the frames of the chunks forwarded,
\* followed by one error frame once a failure of the iterator was reported
ForwardedFramesKept ==
  sseState # "cancelled" => body.tail = WireBytes(EventsWritten)

EndsWithPlaceholder ==
  /\ Len(messages) >= 2
  /\ messages[Len(messages)] = Message("assistant", <<>>)
  /\ messages[Len(messages) - 1].role = "user"

\* the step is a call of stop() that aborts the submission in flight
StopAborts ==
  /\ AbortTarget # 0
  /\ effects'.op \in {"stop", "stopAwaits"}
  /\ subs'[AbortTarget] = "ended"

FragmentEvent == parseSSELine(TextDecode(FALSE, body.tail).text)

HandedOver == yielded \o parsedQueue

\* C37: a non-empty fragment that the body holds after its last delimiter
\* is never decoded: no event is yielded for it, although it may be a
\* complete data line, and at the end of the stream it is still in the
\* buffer, which is then dropped.
C37_UnterminatedFragmentIsDiscarded ==
  body.tail # <<>>
    => /\ \A i \in 1..Len(HandedOver) : HandedOver[i] # FragmentEvent
       /\ Len(HandedOver) <= Len(body.frames)
       /\ exitPath = "endOfStream"
            => buffer = TextDecode(FALSE, body.tail).text

\* the stream ended after two frames and a fragment that is a complete
\* data line; an event was yielded for a frame and none for the fragment
C37_Witness ==
  /\ exitPath = "endOfStream"
  /\ Len(body.frames) = 2
  /\ FragmentEvent = JNum(4)
  /\ buffer # <<>>
  /\ Len(yielded) >= 1


\* C38: within one submission the tracked run id is set at most once, by
\* the first event that carries a run id; no later event of the submission
\* sets it again.
C38_RunIdSetAtMostOnce ==
  \A s \in DOMAIN runIdSets : runIdSets[s] <= 1

\* the kinds that the three classifications give to one event
KindsOf(chunk, nodes, isError) ==
  {kind \in {"chunk", "nodes", "error"} :
     \/ kind = "chunk" /\ chunk # Null
     \/ kind = "nodes" /\ nodes # EmptyObject
     \/ kind = "error" /\ isError}

AllClassified == parsedChunk.done /\ errorClass.done /\ nodeMetadata.done

\* C39: no event is classified as more than one of message chunk, node
\* metadata and error event, and an event with the discriminator
\* messages/metadata yields no message chunk.
C39_EventKindsAreExclusive ==
  AllClassified =>
    /\ Cardinality(KindsOf(parsedChunk.chunk, nodeMetadata.nodes,
                           errorClass.isError)) <= 1
    /\ Get(eventChunk, S_event) = JStr(METADATA_EVENT) =>
         parsedChunk.chunk = Null


\* the run has ended, at END or with the exception of a node
GraphTerminated == graphPc \in {"END", "failed"}

\* the two paths of the graph
DirectPath == <<N_checkQueryType, N_directAnswer>>

RetrievePath == <<N_checkQueryType, N_retrieveDocuments, N_generateResponse>>

\* the route that checkQueryType left in the state, trimmed and in lower
\* case, starts with direct
NormalizedStartsDirect ==
  /\ RouteText(graphRoute) # Undefined
  /\ LET normalized == toLowerCase(trim(RouteText(graphRoute).s))
     IN Len(normalized) >= Len(S_direct)
        /\ SubSeq(normalized, 1, Len(S_direct)) = S_direct

\* the path that the route selects
SelectedPath == IF NormalizedStartsDirect THEN DirectPath ELSE RetrievePath

====
